---- MODULE Spec2Model ----
(***************************************************************************)
(* Frame execution pipeline and GPU resource lifecycle of the rendering    *)
(* module (RenderingECSModule.cpp): one CPU thread driving the staged      *)
(* tick, the GPU executing the single in-flight frame, and the window      *)
(* system delivering events and invalidating the surface.                  *)
(***************************************************************************)
EXTENDS Integers, Sequences, FiniteSets, TLC

\* ------------------------------------------------------------------ bounds
MaxFrames == 2
MaxEvents == 1
MaxDim == 1
NumEntities == 2
MaxPushes == 3
MaxFlushes == 3
MaxImages == 2
MaxVertices == 2
MaxIndices == 2
MaxTypeSize == 2
MaxKeys == 2
MaxNodes == 3

Entities == 1..NumEntities
Dims == 0..MaxDim
Keycodes == 1..MaxKeys
Nodes == 1..MaxNodes

\* ------------------------------------------------------------------ state
VARIABLES
    pc,                   \* position of the CPU thread
    initIdx,              \* next constructor step (index into InitOrder)
    initFailure,          \* history: creation InitWindow or InitVulkan reported as failed
    scene,                \* MainCamera projection and the SimpleMesh/Material of each entity
    cur,                  \* next system of the tick (index into RunOrder)
    err,                  \* VkResult err of the last VK_CHECK evaluated
    isQuitting,           \* Input::isQuitting
    finalCleanupAdded,    \* FinalCleanup phase has been added to the pipeline
    frameNumber,          \* _frameNumber
    drawIdx,              \* loop index of the mesh-drawing system
    currentPipeline,      \* currentPipeline
    swapchainImageIndex,  \* swapchainImageIndex
    result,               \* VkResult result of the last vkQueuePresentKHR
    width, height,        \* locals of OnWindowResize
    windowExtent,         \* windowExtent
    cameraExtent,         \* MainCamera::extent
    swapchain,            \* _swapchain: "null" or "valid"
    swapchainImages,      \* _swapchainImages.size()
    swapchainImageViews,  \* _swapchainImageViews.size()
    framebuffers,         \* _framebuffers.size()
    fbValid,              \* framebuffers were created from in-range image views
    fbExtent,             \* fb_info.width/height the framebuffers were created with
    depthExtent,          \* depthImageExtent of the live depth image
    cmdExtents,           \* render area and viewport/scissor recorded in this frame
    drawLog,              \* history: entities the mesh system processed in this frame
    lifecycleLog,         \* history: swapchain resources destroyed and created by the running function
    depth,                \* _depthImageView / _depthImage are live
    meshInit,             \* mesh._vertexBuffer.IsInitialized(), per entity
    pipelinesLive,        \* material pipelines not yet cleaned up
    syncLive,             \* fences and semaphores exist
    mesh,                 \* UploadMesh: element counts of mesh._vertices and mesh._indices
    sizeofT,              \* UploadMesh: sizeof(SimpleVertex) and sizeof(SimpleMesh) of the build
    staging,              \* UploadMesh: stagingVerticesBuffer and stagingIndicesBuffer
    device,               \* UploadMesh: mesh._vertexBuffer and mesh._indexBuffer
    uploadFence,          \* _uploadContext._uploadFence
    uploadCmd,            \* state of _uploadContext._commandBuffer
    uploadPending,        \* copies submitted by ImmediateSubmit the GPU has not executed
    uploadErr,            \* result of the last vkWaitForFences in ImmediateSubmit
    mainDeletionQueue,    \* _mainDeletionQueue
    flushLog,             \* release actions executed so far, in execution order
    pushCount,            \* number of PushDeletor calls so far
    flushCount,           \* number of Flush calls so far
    renderFence,          \* _renderFence: "signaled" or "unsignaled"
    presentSem,           \* outstanding signals of _presentSemaphore
    renderSem,            \* outstanding signals of _renderSemaphore
    cmdBuf,               \* state of _mainCommandBuffer
    recorded,             \* resources referenced by the commands recorded so far
    inFlight,             \* resources referenced by the frame the GPU executes
    frameState,           \* state of the frame synchronizer
    needsRebuild,         \* history: a Present reported a stale surface, no rebuild since
    windowSize,           \* size SDL_GetWindowSize reports
    surface,              \* surface relative to the swapchain: "ok", "suboptimal", "outOfDate"
    events,               \* SDL event queue
    prevKeyFlags,         \* Input::prevKeyFlags
    currKeyFlags,         \* Input::currKeyFlags
    keyQuery,             \* history: the last Input query and what it returned
    transforms,           \* entity store: handle, parent and Transform of each entity
    walk                  \* GetAbsPosition: currentTransform, absPosition and the entities visited

vars == << pc, scene, initIdx, initFailure, cur, err, isQuitting, finalCleanupAdded, frameNumber,
           drawIdx, currentPipeline, swapchainImageIndex, result, width, height,
           windowExtent, cameraExtent, swapchain, swapchainImages,
           swapchainImageViews, framebuffers, fbValid, fbExtent, depthExtent,
           cmdExtents, drawLog, lifecycleLog, depth, meshInit,
           pipelinesLive, syncLive, mesh, sizeofT, staging, device, uploadFence,
           uploadCmd, uploadPending, uploadErr, mainDeletionQueue, flushLog, pushCount,
           flushCount, renderFence, presentSem, renderSem, cmdBuf, recorded, inFlight,
           frameState, needsRebuild, windowSize, surface, events,
           prevKeyFlags, currKeyFlags, keyQuery, transforms, walk >>

cpuVars == << initIdx, initFailure, cur, err, isQuitting, finalCleanupAdded, frameNumber,
              drawIdx, currentPipeline, swapchainImageIndex, result, width, height,
              windowExtent, cameraExtent >>
swapVars == << swapchain, swapchainImages, swapchainImageViews, depth, depthExtent >>
fbVars == << framebuffers, fbValid, fbExtent, lifecycleLog >>
uploadVars == << mesh, sizeofT, staging, device, uploadFence, uploadCmd,
                uploadPending, uploadErr >>
resVars == << meshInit, pipelinesLive, syncLive, uploadVars >>
dqVars == << mainDeletionQueue, flushLog, pushCount, flushCount >>
syncVars == << renderFence, presentSem, renderSem >>
gpuVars == << cmdBuf, recorded, inFlight, cmdExtents, drawLog >>
envVars == << windowSize, surface, events >>
inputVars == << prevKeyFlags, currKeyFlags, keyQuery >>
transformVars == << transforms, walk >>
worldVars == << scene, inputVars, transformVars >>

\* ------------------------------------------------------- deletion queue
\* DeletionQueue::PushDeletor appends the release action.
PushDeletor(q, a) == Append(q, a)

\* DeletionQueue::Flush runs the actions from the most recent to the oldest.
FlushOrder(q) == [i \in 1..Len(q) |-> q[Len(q) + 1 - i]]

\* Mutant of AfterFlush: the queue keeps its actions after a drain.
AfterFlushKeep(q) == q

\* DeletionQueue::Flush leaves the queue empty.
AfterFlush(q) == SubSeq(q, 1, 0)

\* ------------------------------------------------------------- VK_CHECK
\* Mutant of VK_CHECK: the result is ignored.
VK_CHECK_Ignore(res, next) == next

\* VK_CHECK(x): any non-zero VkResult aborts the process.
VK_CHECK(res, next) == IF res # "VK_SUCCESS" THEN "aborted" ELSE next

\* Ends of the process: abort() of VK_CHECK, a crash, exit(), an exception
\* leaving a system (no handler under the tick catches it), normal teardown.
Terminal == {"aborted", "crashed", "exited", "thrown", "done"}

\* The GPU still executes a submitted frame.
gpuBusy == inFlight # {}

\* --------------------------------------------------------- construction
\* Mutant of InitOrder: sync structures are created before the command pools.
InitOrderSwapped ==
    << "InitWindow", "InitVulkan", "InitSwapchain", "InitSyncStructures",
       "InitDefaultRenderPass", "InitFrameBuffers", "InitCommands",
       "InitPipelines", "InitImGui" >>

\* Order of the initialization calls in the constructor.
InitOrder ==
    << "InitWindow", "InitVulkan", "InitSwapchain", "InitCommands",
       "InitDefaultRenderPass", "InitFrameBuffers", "InitSyncStructures",
       "InitPipelines", "InitImGui" >>

\* The window is created larger than every size the user resizes it to.
InitialExtent == << MaxDim + 1, MaxDim + 1 >>

\* Extent of a resource that does not exist, and of commands not recorded.
NoExtent == << 0, 0 >>
NothingRecorded == [renderArea |-> NoExtent, viewport |-> NoExtent]

\* State before the constructor body runs.
InitState ==
    /\ initIdx = 1
    /\ cur = 1
    /\ err = "VK_SUCCESS"
    /\ isQuitting = FALSE
    /\ finalCleanupAdded = FALSE
    /\ frameNumber = 0
    /\ drawIdx = 1
    /\ currentPipeline = "none"
    /\ swapchainImageIndex = 0
    /\ result = "VK_SUCCESS"
    /\ width = 0
    /\ height = 0
    /\ windowExtent = InitialExtent
    /\ cameraExtent = windowExtent
    /\ swapchain = "null"
    /\ swapchainImages = 0
    /\ swapchainImageViews = 0
    /\ framebuffers = 0
    /\ fbValid = TRUE
    /\ fbExtent = NoExtent
    /\ depthExtent = NoExtent
    /\ cmdExtents = NothingRecorded
    /\ drawLog = << >>
    /\ initFailure = "none"
    /\ lifecycleLog = << "RenderingECSModule" >>
    /\ depth = FALSE
    /\ meshInit = [e \in Entities |-> FALSE]
    /\ pipelinesLive = FALSE
    /\ syncLive = FALSE
    /\ mainDeletionQueue = << >>
    /\ flushLog = << >>
    /\ pushCount = 0
    /\ flushCount = 0
    /\ renderFence = "unsignaled"
    /\ presentSem = 0
    /\ renderSem = 0
    /\ cmdBuf = "initial"
    /\ recorded = {}
    /\ inFlight = {}
    /\ frameState = "Idle"
    /\ needsRebuild = FALSE
    /\ windowSize = windowExtent
    /\ surface = "ok"
    /\ events = << >>

\* State of the upload path before UploadMesh runs on a mesh with the given
\* element counts, in a build with the given type sizes.
UploadInitState(vertices, indices, vertexSize, meshSize) ==
    LET \* A buffer that has not been allocated.
        NoBuffer == [size |-> 0, data |-> << >>, live |-> FALSE]
    IN
    /\ mesh = [vertices |-> vertices, indices |-> indices]
    /\ sizeofT = [SimpleVertex |-> vertexSize, SimpleMesh |-> meshSize]
    /\ staging = [v |-> NoBuffer, i |-> NoBuffer]
    /\ device = [v |-> NoBuffer, i |-> NoBuffer]
    /\ uploadFence = "unsignaled"
    /\ uploadCmd = "initial"
    /\ uploadPending = {}
    /\ uploadErr = "VK_SUCCESS"

\* Scenes: the camera, and per entity whether mesh._vertices is empty and
\* the material.
Scenes ==
    LET \* Materials an entity can carry: a pipeline and a pipeline layout,
        \* either of which may be null.
        Materials ==
            { [pipeline |-> "simpleMeshPipeline", layout |-> "simpleMeshPipelineLayout"],
              [pipeline |-> "_meshPipeline", layout |-> "_meshPipelineLayout"],
              [pipeline |-> "none", layout |-> "simpleMeshPipelineLayout"],
              [pipeline |-> "simpleMeshPipeline", layout |-> "none"] }
        \* Components the MainCamera entity can carry.
        Cameras == {"PerspectiveCamera", "OrthoCamera", "none"}
    IN  [camera : Cameras,
         ents : [Entities -> [empty : BOOLEAN, material : Materials]]]

\* The scene of the game: a perspective camera, every entity an instance of
\* PR_TriangleRender with the material "SimpleMesh/Color".
DefaultScene ==
    [camera |-> "PerspectiveCamera",
     ents |-> [e \in Entities |->
                 [empty |-> FALSE,
                  material |-> [pipeline |-> "simpleMeshPipeline",
                                layout |-> "simpleMeshPipelineLayout"]]]]

\* The maps of a freshly constructed Input, and no query made yet.
NoQuery == [op |-> "none", keycode |-> 0, state |-> "none", value |-> FALSE]
InputInitState ==
    /\ prevKeyFlags = [k \in {} |-> FALSE]
    /\ currKeyFlags = [k \in {} |-> FALSE]
    /\ keyQuery = NoQuery

\* The null entity handle / the null Transform pointer.
NullEntity == 0

\* An entity store without entities, and no GetAbsPosition call running.
NoWalk ==
    [pc |-> "idle", self |-> NullEntity, currentTransform |-> NullEntity,
     absPosition |-> 0, visited |-> << >>]
TransformInitState ==
    /\ transforms = << >>
    /\ walk = NoWalk

Init ==
    /\ pc = "ctor"
    /\ scene = DefaultScene
    /\ InputInitState
    /\ TransformInitState
    /\ InitState
    /\ UploadInitState(MaxVertices, MaxIndices, MaxTypeSize, MaxTypeSize)

\* ------------------------------------------------------------ resources
Res(kind, n) == [kind |-> kind, n |-> n]
Deletor(id, kind, n) == [id |-> id, kind |-> kind, n |-> n]

\* Creations of InitSwapchain in the order of its statements.
CreateOpsSwapchain ==
    << "create swapchain", "create imageViews", "create depthImage",
       "create depthImageView" >>

\* Destructions of CleanupFrameBuffers.
DestroyOpsFrameBuffers ==
    IF framebuffers > 0 THEN << "destroy framebuffers" >> ELSE << >>

\* Destructions of CleanupSwapchain in the order of its statements.
DestroyOpsSwapchain ==
    (IF depth THEN << "destroy depthImageView", "destroy depthImage" >> ELSE << >>)
    \o (IF swapchainImageViews > 0 THEN << "destroy imageViews" >> ELSE << >>)
    \o (IF swapchain = "valid" THEN << "destroy swapchain" >> ELSE << >>)

\* InitSwapchain: build the swapchain; a failed build returns early and
\* leaves every member as it was.
InitSwapchain(next) ==
    /\ pc' = next
    /\ \E ok \in BOOLEAN, n \in 1..MaxImages :
          IF ok /\ windowSize[1] > 0 /\ windowSize[2] > 0
          THEN /\ swapchain' = "valid"
               /\ swapchainImages' = n
               /\ swapchainImageViews' = n
               /\ depth' = TRUE
               /\ depthExtent' = windowExtent
               /\ surface' = "ok"
               /\ err' = "VK_SUCCESS"
               /\ lifecycleLog' = lifecycleLog \o CreateOpsSwapchain
          ELSE UNCHANGED << swapVars, surface, err, lifecycleLog >>

\* InitFrameBuffers sizes _framebuffers from _swapchainImages.size().
FramebufferCount(images, views) == images

\* InitFrameBuffers: one framebuffer per swapchain image, attached to
\* _swapchainImageViews[i]; indexing past the end of the view list is
\* undefined (crash, error result, or a framebuffer over a garbage view).
InitFrameBuffers(next) ==
    /\ framebuffers' = FramebufferCount(swapchainImages, swapchainImageViews)
    /\ fbExtent' = IF FramebufferCount(swapchainImages, swapchainImageViews) > 0
                   THEN windowExtent ELSE NoExtent
    /\ IF swapchainImages <= swapchainImageViews
       THEN /\ fbValid' = TRUE
            /\ pc' = next
            /\ err' = IF swapchainImages > 0 THEN "VK_SUCCESS" ELSE err
            /\ lifecycleLog' = IF swapchainImages > 0
                               THEN Append(lifecycleLog, "create framebuffers")
                               ELSE lifecycleLog
       ELSE \E outcome \in {"crash", "error", "garbage"} :
               /\ fbValid' = FALSE
               /\ pc' = CASE outcome = "crash" -> "crashed"
                          [] outcome = "error" -> VK_CHECK("VK_ERROR_UNKNOWN", next)
                          [] OTHER -> VK_CHECK("VK_SUCCESS", next)
               /\ err' = CASE outcome = "crash" -> err
                           [] outcome = "error" -> "VK_ERROR_UNKNOWN"
                           [] OTHER -> "VK_SUCCESS"
               /\ lifecycleLog' = IF outcome = "garbage"
                                  THEN Append(lifecycleLog, "create framebuffers")
                                  ELSE lifecycleLog

\* CleanupFrameBuffers: destroy every framebuffer and clear the list.
CleanupFrameBuffers ==
    /\ framebuffers' = 0
    /\ fbExtent' = NoExtent
    /\ fbValid' = TRUE

\* CleanupSwapchain: destroy depth view/image, image views and swapchain.
\* _swapchainImages is not cleared.
CleanupSwapchain ==
    /\ depth' = FALSE
    /\ depthExtent' = NoExtent
    /\ swapchainImageViews' = 0
    /\ swapchain' = "null"
    /\ UNCHANGED swapchainImages

CtorStep(name) ==
    /\ pc = "ctor"
    /\ initIdx <= Len(InitOrder)
    /\ InitOrder[initIdx] = name
    /\ initIdx' = initIdx + 1
    /\ UNCHANGED initFailure

\* Creations InitWindow and InitVulkan check, in the order of the checks.
InitChecks(name) ==
    IF name = "InitWindow"
    THEN << "window", "SDL" >>
    ELSE << "instance", "surface", "physicalDevice", "device" >>

\* Mutant of InitFailed: a failed creation is reported and the constructor
\* goes on.
InitFailedGoesOn(failure, next) == next

\* A failed creation is reported on std::cerr and exit(EXIT_FAILURE) ends
\* the process.
InitFailed(failure, next) == IF failure # "none" THEN "exited" ELSE next

\* InitWindow and InitVulkan: each checked creation either succeeds or fails;
\* the first failure ends the function.
CtorInitChecked ==
    /\ pc = "ctor"
    /\ initIdx <= Len(InitOrder)
    /\ InitOrder[initIdx] \in {"InitWindow", "InitVulkan"}
    /\ \E k \in 0..Len(InitChecks(InitOrder[initIdx])) :
          LET failure == IF k = 0 THEN "none" ELSE InitChecks(InitOrder[initIdx])[k] IN
          /\ initFailure' = failure
          /\ pc' = InitFailed(failure, "ctor")
          /\ initIdx' = IF InitFailed(failure, "ctor") = "ctor"
                        THEN initIdx + 1 ELSE initIdx
    /\ UNCHANGED << worldVars, cur, err, isQuitting, finalCleanupAdded, frameNumber,
                    drawIdx, currentPipeline, swapchainImageIndex, result, width,
                    height, windowExtent, cameraExtent, swapVars, fbVars, resVars,
                    dqVars, syncVars, gpuVars, frameState, needsRebuild, envVars >>

\* InitDefaultRenderPass, InitImGui.
CtorInitOther ==
    /\ \E name \in {"InitDefaultRenderPass", "InitImGui"} :
          CtorStep(name)
    /\ UNCHANGED << worldVars, pc, cur, err, isQuitting, finalCleanupAdded, frameNumber,
                    drawIdx, currentPipeline, swapchainImageIndex, result, width,
                    height, windowExtent, cameraExtent, swapVars, fbVars, resVars,
                    dqVars, syncVars, gpuVars, frameState, needsRebuild, envVars >>

CtorInitSwapchain ==
    /\ CtorStep("InitSwapchain")
    /\ InitSwapchain("ctor")
    /\ UNCHANGED << worldVars, cur, isQuitting, finalCleanupAdded, frameNumber, drawIdx,
                    currentPipeline, swapchainImageIndex, result, width, height,
                    windowExtent, cameraExtent, framebuffers, fbValid, fbExtent, resVars,
                    dqVars, syncVars, gpuVars, frameState, needsRebuild, windowSize,
                    events >>

\* InitCommands: command pools and buffers; registers the release of the
\* upload command pool.
CtorInitCommands ==
    /\ CtorStep("InitCommands")
    /\ mainDeletionQueue' =
          PushDeletor(mainDeletionQueue, Deletor(pushCount + 1, "uploadCommandPool", 0))
    /\ pushCount' = pushCount + 1
    /\ err' = "VK_SUCCESS"
    /\ UNCHANGED << worldVars, pc, cur, isQuitting, finalCleanupAdded, frameNumber, drawIdx,
                    currentPipeline, swapchainImageIndex, result, width, height,
                    windowExtent, cameraExtent, swapVars, fbVars, resVars, flushLog,
                    flushCount, syncVars, gpuVars, frameState, needsRebuild, envVars >>

CtorInitFrameBuffers ==
    /\ CtorStep("InitFrameBuffers")
    /\ InitFrameBuffers("ctor")
    /\ UNCHANGED << worldVars, cur, isQuitting, finalCleanupAdded, frameNumber, drawIdx,
                    currentPipeline, swapchainImageIndex, result, width, height,
                    windowExtent, cameraExtent, swapVars, resVars, dqVars, syncVars,
                    gpuVars, frameState, needsRebuild, envVars >>

\* Mutant of RenderFenceCreated: the fence is created without the flag.
RenderFenceCreatedUnsignaled == "unsignaled"

\* fence_create_info(VK_FENCE_CREATE_SIGNALED_BIT) for _renderFence.
RenderFenceCreated == "signaled"

\* InitSyncStructures: the render fence is created signaled, the semaphores
\* unsignaled; registers the release of fences and semaphores.
CtorInitSyncStructures ==
    /\ CtorStep("InitSyncStructures")
    /\ renderFence' = RenderFenceCreated
    /\ presentSem' = 0
    /\ renderSem' = 0
    /\ syncLive' = TRUE
    /\ mainDeletionQueue' =
          PushDeletor(mainDeletionQueue, Deletor(pushCount + 1, "syncStructures", 0))
    /\ pushCount' = pushCount + 1
    /\ err' = "VK_SUCCESS"
    /\ UNCHANGED << worldVars, pc, cur, isQuitting, finalCleanupAdded, frameNumber, drawIdx,
                    currentPipeline, swapchainImageIndex, result, width, height,
                    windowExtent, cameraExtent, swapVars, fbVars, meshInit,
                    pipelinesLive, uploadVars, flushLog, flushCount, gpuVars,
                    frameState, needsRebuild, envVars >>

CtorInitPipelines ==
    /\ CtorStep("InitPipelines")
    /\ pipelinesLive' = TRUE
    /\ err' = "VK_SUCCESS"
    /\ UNCHANGED << worldVars, pc, cur, isQuitting, finalCleanupAdded, frameNumber, drawIdx,
                    currentPipeline, swapchainImageIndex, result, width, height,
                    windowExtent, cameraExtent, swapVars, fbVars, meshInit, syncLive,
                    uploadVars, dqVars, syncVars, gpuVars, frameState, needsRebuild,
                    envVars >>

\* Rest of the constructor: components, prefabs and systems are registered.
CtorFinish ==
    /\ pc = "ctor"
    /\ initIdx > Len(InitOrder)
    /\ pc' = "sched"
    /\ cur' = 1
    /\ UNCHANGED << worldVars, initIdx, initFailure, err, isQuitting, finalCleanupAdded, frameNumber,
                    drawIdx, currentPipeline, swapchainImageIndex, result, width,
                    height, windowExtent, cameraExtent, swapVars, fbVars, resVars,
                    dqVars, syncVars, gpuVars, frameState, needsRebuild, envVars >>

\* ------------------------------------------------------------- pipeline
\* Mutant of Stages: PostDraw runs before Draw.
StagesPostDrawBeforeDraw ==
    << "InputUpdate", "Update", "Collisions", "PreDraw", "PostDraw", "Draw",
       "Housekeeping" >>

\* Mutant of Stages: InputUpdate runs between PreDraw and Draw.
StagesInputAfterPreDraw ==
    << "Update", "Collisions", "PreDraw", "InputUpdate", "Draw", "PostDraw",
       "Housekeeping" >>

\* Order of the stages of one tick.
Stages ==
    << "InputUpdate", "Update", "Collisions", "PreDraw", "Draw", "PostDraw",
       "Housekeeping" >>

\* Mutant of Systems: the mesh system is registered before the FPS counter.
SystemsMeshBeforeFps ==
    << [name |-> "InputPoll", kind |-> "InputUpdate"],
       [name |-> "PreDrawStep", kind |-> "PreDraw"],
       [name |-> "PostDrawStep", kind |-> "PostDraw"],
       [name |-> "DrawMeshes", kind |-> "Draw"],
       [name |-> "DisplayFPSCounter", kind |-> "Draw"],
       [name |-> "ToggleFullscreen", kind |-> "Update"],
       [name |-> "Housekeeping", kind |-> "Housekeeping"],
       [name |-> "MaterialCleanup", kind |-> "FinalCleanup"] >>

\* Mutant of Systems: the PostDraw system is registered in the Update stage.
SystemsPostInUpdate ==
    << [name |-> "InputPoll", kind |-> "InputUpdate"],
       [name |-> "PreDrawStep", kind |-> "PreDraw"],
       [name |-> "PostDrawStep", kind |-> "Update"],
       [name |-> "DisplayFPSCounter", kind |-> "Draw"],
       [name |-> "DrawMeshes", kind |-> "Draw"],
       [name |-> "ToggleFullscreen", kind |-> "Update"],
       [name |-> "Housekeeping", kind |-> "Housekeeping"],
       [name |-> "MaterialCleanup", kind |-> "FinalCleanup"] >>

\* Systems in registration order with the stage each is bound to.
Systems ==
    << [name |-> "InputPoll", kind |-> "InputUpdate"],
       [name |-> "PreDrawStep", kind |-> "PreDraw"],
       [name |-> "PostDrawStep", kind |-> "PostDraw"],
       [name |-> "DisplayFPSCounter", kind |-> "Draw"],
       [name |-> "DrawMeshes", kind |-> "Draw"],
       [name |-> "ToggleFullscreen", kind |-> "Update"],
       [name |-> "Housekeeping", kind |-> "Housekeeping"],
       [name |-> "MaterialCleanup", kind |-> "FinalCleanup"] >>

RECURSIVE Flatten(_)
Flatten(ss) == IF ss = << >> THEN << >> ELSE Head(ss) \o Flatten(Tail(ss))

\* Systems of one tick: stage by stage, registration order inside a stage;
\* one order for the pipeline without and one for the pipeline with
\* FinalCleanup.
RunOrders ==
    LET \* The pipeline: the fixed stages, then FinalCleanup once it has been
        \* added as a phase depending on Housekeeping.
        Pipeline(fc) == IF fc THEN Append(Stages, "FinalCleanup") ELSE Stages
    IN
    [fc \in BOOLEAN |->
        Flatten([i \in 1..Len(Pipeline(fc)) |->
                    SelectSeq(Systems, LAMBDA s : s.kind = Pipeline(fc)[i])])]

\* Systems of one tick for the current pipeline.
RunOrder(fc) == RunOrders[fc]

Entry(name) ==
    CASE name = "InputPoll" -> "input_poll"
      [] name = "PreDrawStep" -> "pre_wait"
      [] name = "PostDrawStep" -> "post_submit"
      [] name = "DisplayFPSCounter" -> "fps"
      [] name = "DrawMeshes" -> "draw_loop"
      [] name = "ToggleFullscreen" -> "toggle"
      [] name = "Housekeeping" -> "housekeeping"
      [] name = "MaterialCleanup" -> "material_cleanup"

\* A system returns to the scheduler.
Return ==
    /\ pc' = "sched"
    /\ cur' = cur + 1

\* The scheduler starts the next system of the tick.
Dispatch ==
    /\ pc = "sched"
    /\ cur <= Len(RunOrder(finalCleanupAdded))
    /\ pc' = Entry(RunOrder(finalCleanupAdded)[cur].name)
    /\ drawIdx' = 1
    /\ UNCHANGED << worldVars, initIdx, initFailure, cur, err, isQuitting, finalCleanupAdded, frameNumber,
                    currentPipeline, swapchainImageIndex, result, width, height,
                    windowExtent, cameraExtent, swapVars, fbVars, resVars, dqVars,
                    syncVars, gpuVars, frameState, needsRebuild, envVars >>

\* End of a tick: the main loop runs another tick until quit was requested,
\* then tears the module down.
EndTick ==
    /\ pc = "sched"
    /\ cur > Len(RunOrder(finalCleanupAdded))
    /\ IF isQuitting
       THEN pc' = "dtor_wait" /\ UNCHANGED cur
       ELSE frameNumber < MaxFrames /\ pc' = "sched" /\ cur' = 1
    /\ UNCHANGED << worldVars, initIdx, initFailure, err, isQuitting, finalCleanupAdded, frameNumber,
                    drawIdx, currentPipeline, swapchainImageIndex, result, width,
                    height, windowExtent, cameraExtent, swapVars, fbVars, resVars,
                    dqVars, syncVars, gpuVars, frameState, needsRebuild, envVars >>

\* DisplayFPSCounter and the F11 fullscreen toggle touch no modelled state.
SimpleSystem ==
    /\ pc \in {"fps", "toggle"}
    /\ Return
    /\ UNCHANGED << worldVars, initIdx, initFailure, err, isQuitting, finalCleanupAdded, frameNumber,
                    drawIdx, currentPipeline, swapchainImageIndex, result, width,
                    height, windowExtent, cameraExtent, swapVars, fbVars, resVars,
                    dqVars, syncVars, gpuVars, frameState, needsRebuild, envVars >>

\* --------------------------------------------------------- input stage
\* The input system drains the SDL event queue at the start of the tick:
\* quit sets Input::isQuitting, a resize event calls OnWindowResize, a
\* minimize event calls OnWindowMinimize. The history of the function that
\* has returned is dropped.
InputPoll ==
    /\ pc = "input_poll"
    /\ IF events = << >>
       THEN /\ Return
            /\ UNCHANGED << isQuitting, events >>
       ELSE /\ events' = Tail(events)
            /\ isQuitting' = (isQuitting \/ Head(events) = "quit")
            /\ pc' = CASE Head(events) = "resized" -> "resize_getsize"
                       [] Head(events) = "minimized" -> "min_loop"
                       [] OTHER -> "input_poll"
            /\ UNCHANGED cur
    /\ lifecycleLog' = << >>
    /\ UNCHANGED << worldVars, initIdx, initFailure, err, finalCleanupAdded, frameNumber, drawIdx,
                    currentPipeline, swapchainImageIndex, result, width, height,
                    windowExtent, cameraExtent, swapVars, framebuffers, fbValid, fbExtent,
                    resVars, dqVars, syncVars, gpuVars, frameState, needsRebuild,
                    windowSize, surface >>

\* Mutant of FirstWake: any event wakes the loop.
FirstWakeAnyEvent(q) == IF q # << >> THEN 1 ELSE 0

\* Index of the first quit or restored event of the queue, 0 if there is none.
FirstWake(q) ==
    IF \E i \in 1..Len(q) : q[i] \in {"quit", "restored"}
    THEN CHOOSE i \in 1..Len(q) :
            /\ q[i] \in {"quit", "restored"}
            /\ \A j \in 1..(i - 1) : q[j] \notin {"quit", "restored"}
    ELSE 0

\* OnWindowMinimize, one pass of the poll loop: quit exits the process, a
\* restored event returns, every other event is dropped.
OnWindowMinimize ==
    /\ pc = "min_loop"
    /\ LET i == FirstWake(events) IN
         IF i = 0
         THEN /\ events' = << >>
              /\ pc' = "min_loop"
         ELSE /\ events' = SubSeq(events, i + 1, Len(events))
              /\ pc' = IF events[i] = "quit" THEN "exited" ELSE "input_poll"
    /\ UNCHANGED << worldVars, cpuVars, swapVars, fbVars, resVars, dqVars, syncVars, gpuVars,
                    frameState, needsRebuild, windowSize, surface >>

ZeroArea(w, h) == w = 0 \/ h = 0

\* OnWindowResize: SDL_GetWindowSize into the locals.
ResizeGetSize ==
    /\ pc = "resize_getsize"
    /\ width' = windowSize[1]
    /\ height' = windowSize[2]
    /\ pc' = IF ZeroArea(windowSize[1], windowSize[2])
             THEN "resize_loop" ELSE "resize_idle"
    /\ lifecycleLog' = << "OnWindowResize" >>
    /\ UNCHANGED << worldVars, initIdx, initFailure, cur, err, isQuitting, finalCleanupAdded, frameNumber,
                    drawIdx, currentPipeline, swapchainImageIndex, result,
                    windowExtent, cameraExtent, swapVars, framebuffers, fbValid, fbExtent,
                    resVars, dqVars, syncVars, gpuVars, frameState, needsRebuild,
                    envVars >>

\* OnWindowResize, one pass of the zero-extent loop: quit exits the process,
\* every other event is dropped, then the size is read again.
ResizeLoop ==
    /\ pc = "resize_loop"
    /\ IF \E i \in 1..Len(events) : events[i] = "quit"
       THEN /\ pc' = "exited"
            /\ events' = << >>
            /\ UNCHANGED << width, height >>
       ELSE /\ events' = << >>
            /\ width' = windowSize[1]
            /\ height' = windowSize[2]
            /\ pc' = IF ZeroArea(windowSize[1], windowSize[2])
                     THEN "resize_loop" ELSE "resize_idle"
    /\ UNCHANGED << worldVars, initIdx, initFailure, cur, err, isQuitting, finalCleanupAdded, frameNumber,
                    drawIdx, currentPipeline, swapchainImageIndex, result,
                    windowExtent, cameraExtent, swapVars, fbVars, resVars, dqVars,
                    syncVars, gpuVars, frameState, needsRebuild, windowSize, surface >>

\* Mutant of DeviceIdle: vkDeviceWaitIdle returns at once.
DeviceIdleNoWait == TRUE

\* vkDeviceWaitIdle returns once no submitted work is executing.
DeviceIdle == ~gpuBusy

\* OnWindowResize: vkDeviceWaitIdle blocks until the GPU is idle.
ResizeWaitIdle ==
    /\ pc = "resize_idle"
    /\ DeviceIdle
    /\ pc' = "resize_cleanup"
    /\ UNCHANGED << worldVars, cpuVars, swapVars, fbVars, resVars, dqVars, syncVars, gpuVars,
                    frameState, needsRebuild, envVars >>

\* Mutant of GetWindowExtent: the camera keeps the extent it had.
GetWindowExtentStale(e) == cameraExtent

\* GetWindowExtent: the Rect from zero to (windowExtent.width, windowExtent.height).
GetWindowExtent(e) == << e[1], e[2] >>

\* OnWindowResize: CleanupFrameBuffers, CleanupSwapchain, then the new extent
\* is stored and published to the MainCamera.
ResizeCleanup ==
    /\ pc = "resize_cleanup"
    /\ CleanupFrameBuffers
    /\ CleanupSwapchain
    /\ lifecycleLog' = lifecycleLog \o DestroyOpsFrameBuffers \o DestroyOpsSwapchain
    /\ windowExtent' = << width, height >>
    /\ cameraExtent' = GetWindowExtent(<< width, height >>)
    /\ pc' = "resize_init_swapchain"
    /\ UNCHANGED << worldVars, initIdx, initFailure, cur, err, isQuitting, finalCleanupAdded, frameNumber,
                    drawIdx, currentPipeline, swapchainImageIndex, result, width,
                    height, resVars, dqVars, syncVars, gpuVars, frameState,
                    needsRebuild, envVars >>

ResizeInitSwapchain ==
    /\ pc = "resize_init_swapchain"
    /\ InitSwapchain("resize_init_fb")
    /\ needsRebuild' = (needsRebuild /\ swapchain' # "valid")
    /\ UNCHANGED << worldVars, initIdx, initFailure, cur, isQuitting, finalCleanupAdded, frameNumber,
                    drawIdx, currentPipeline, swapchainImageIndex, result, width,
                    height, windowExtent, cameraExtent, framebuffers, fbValid, fbExtent,
                    resVars, dqVars, syncVars, gpuVars, frameState, windowSize,
                    events >>

ResizeInitFrameBuffers ==
    /\ pc = "resize_init_fb"
    /\ InitFrameBuffers("input_poll")
    /\ width' = 0
    /\ height' = 0
    /\ UNCHANGED << worldVars, initIdx, initFailure, cur, isQuitting, finalCleanupAdded, frameNumber,
                    drawIdx, currentPipeline, swapchainImageIndex, result,
                    windowExtent, cameraExtent, swapVars, resVars, dqVars,
                    syncVars, gpuVars, frameState, needsRebuild, envVars >>

\* ------------------------------------------------------------- PreDraw
\* vkWaitForFences with a one second timeout: success once the fence is
\* signaled, VK_TIMEOUT while it is not.
WaitResults(fence) == IF fence = "signaled" THEN {"VK_SUCCESS"} ELSE {"VK_TIMEOUT"}

\* vkAcquireNextImageKHR with a one second timeout.
AcquireResults(s) ==
    CASE s = "ok" -> {"VK_SUCCESS", "VK_TIMEOUT"}
      [] s = "suboptimal" -> {"VK_SUBOPTIMAL_KHR"}
      [] s = "outOfDate" -> {"VK_ERROR_OUT_OF_DATE_KHR"}

\* vkQueuePresentKHR.
PresentResults(s) ==
    CASE s = "ok" -> {"VK_SUCCESS"}
      [] s = "suboptimal" -> {"VK_SUBOPTIMAL_KHR"}
      [] s = "outOfDate" -> {"VK_ERROR_OUT_OF_DATE_KHR"}

\* PreDrawStep: VK_CHECK(vkWaitForFences(_renderFence)).
PreDrawWaitFence ==
    /\ pc = "pre_wait"
    /\ \E res \in WaitResults(renderFence) :
          /\ err' = res
          /\ pc' = VK_CHECK(res, "pre_reset")
    /\ UNCHANGED << worldVars, initIdx, initFailure, cur, isQuitting, finalCleanupAdded, frameNumber,
                    drawIdx, currentPipeline, swapchainImageIndex, result, width,
                    height, windowExtent, cameraExtent, swapVars, fbVars, resVars,
                    dqVars, syncVars, gpuVars, frameState, needsRebuild, envVars >>

\* PreDrawStep: VK_CHECK(vkResetFences(_renderFence)).
PreDrawResetFence ==
    /\ pc = "pre_reset"
    /\ renderFence' = "unsignaled"
    /\ err' = "VK_SUCCESS"
    /\ pc' = VK_CHECK("VK_SUCCESS", "pre_acquire")
    /\ UNCHANGED << worldVars, initIdx, initFailure, cur, isQuitting, finalCleanupAdded, frameNumber,
                    drawIdx, currentPipeline, swapchainImageIndex, result, width,
                    height, windowExtent, cameraExtent, swapVars, fbVars, resVars,
                    dqVars, presentSem, renderSem, gpuVars, frameState,
                    needsRebuild, envVars >>

\* PreDrawStep: VK_CHECK(vkAcquireNextImageKHR(_swapchain, _presentSemaphore)).
\* An acquired image (success or suboptimal) signals _presentSemaphore.
\* Acquiring from a null swapchain handle is undefined.
PreDrawAcquire ==
    /\ pc = "pre_acquire"
    /\ IF swapchain = "null" \/ swapchainImages = 0
       THEN /\ pc' = "crashed"
            /\ UNCHANGED << err, swapchainImageIndex, presentSem, frameState >>
       ELSE \E res \in AcquireResults(surface) :
               /\ err' = res
               /\ pc' = VK_CHECK(res, "pre_record")
               /\ IF res \in {"VK_SUCCESS", "VK_SUBOPTIMAL_KHR"}
                  THEN /\ \E i \in 0..(swapchainImages - 1) : swapchainImageIndex' = i
                       /\ presentSem' = presentSem + 1
                  ELSE UNCHANGED << swapchainImageIndex, presentSem >>
               /\ frameState' = IF res = "VK_SUCCESS" THEN "Acquired" ELSE frameState
    /\ UNCHANGED << worldVars, initIdx, initFailure, cur, isQuitting, finalCleanupAdded, frameNumber,
                    drawIdx, currentPipeline, result, width, height, windowExtent,
                    cameraExtent, swapVars, fbVars, resVars, dqVars, renderFence,
                    renderSem, gpuVars, needsRebuild, envVars >>

\* PreDrawStep: vkResetCommandBuffer, vkBeginCommandBuffer and
\* vkCmdBeginRenderPass on _framebuffers[swapchainImageIndex].
PreDrawRecord ==
    /\ pc = "pre_record"
    /\ IF swapchainImageIndex < framebuffers
       THEN Return
       ELSE (pc' = "crashed" /\ UNCHANGED cur) \/ Return
    /\ cmdBuf' = "recording"
    \* the render pass references the framebuffer and the depth target
    /\ recorded' = {Res("framebuffer", 0), Res("depth", 0)}
    /\ cmdExtents' = [cmdExtents EXCEPT !.renderArea = windowExtent]
    /\ drawLog' = << >>
    /\ frameState' = "Recording"
    /\ err' = "VK_SUCCESS"
    /\ UNCHANGED << worldVars, initIdx, initFailure, isQuitting, finalCleanupAdded, frameNumber, drawIdx,
                    currentPipeline, swapchainImageIndex, result, width, height,
                    windowExtent, cameraExtent, swapVars, fbVars, resVars, dqVars,
                    syncVars, inFlight, needsRebuild, envVars >>

\* ---------------------------------------------------------------- Draw
\* Mutant of SkipEntity: a null pipeline layout is not looked at.
SkipEntityIgnoresLayout(m) ==
    m.empty \/ m.material.pipeline = "none"

\* The mesh system skips an entity without vertices or whose material has a
\* null pipeline or a null pipeline layout.
SkipEntity(m) ==
    m.empty \/ m.material.pipeline = "none" \/ m.material.layout = "none"

\* Mutant of UploadRegisters: UploadMesh registers no release action.
UploadRegistersNothing(q, id, e) == q

\* UploadMesh registers one action releasing the vertex and the index buffer
\* of the mesh.
UploadRegisters(q, id, e) == PushDeletor(q, Deletor(id, "meshBuffers", e))

\* Mutant of NeedsUpload: the mesh is uploaded whenever it is drawn.
NeedsUploadAlways(initialized) == TRUE

\* if (!mesh._vertexBuffer.IsInitialized()) UploadMesh(mesh)
NeedsUpload(initialized) == ~initialized

\* Draw-stage mesh system. The camera is looked up first: a MainCamera with
\* neither projection throws. Then one entity of the loop per step: skip,
\* lazy UploadMesh, BindPipeline when currentPipeline differs from the
\* material's pipeline, and Draw under a perspective camera (the call for an
\* orthographic camera is commented out). currentPipeline is assigned nowhere.
DrawEntity ==
    /\ pc = "draw_loop"
    /\ IF scene.camera = "none"
       THEN /\ pc' = "thrown"
            /\ UNCHANGED << cur, drawIdx, meshInit, mainDeletionQueue, pushCount,
                            recorded, cmdExtents, drawLog, err >>
       ELSE IF drawIdx > NumEntities
       THEN /\ Return
            /\ UNCHANGED << drawIdx, meshInit, mainDeletionQueue, pushCount, recorded,
                            cmdExtents, drawLog, err >>
       ELSE LET e == drawIdx
                m == scene.ents[e]
                bind == currentPipeline # m.material.pipeline
                draw == scene.camera = "PerspectiveCamera" IN
            /\ drawIdx' = drawIdx + 1
            /\ UNCHANGED << pc, cur >>
            /\ IF SkipEntity(m)
               THEN UNCHANGED << meshInit, mainDeletionQueue, pushCount, recorded,
                                 cmdExtents, drawLog, err >>
               ELSE /\ IF NeedsUpload(meshInit[e])
                       THEN /\ meshInit' = [meshInit EXCEPT ![e] = TRUE]
                            /\ mainDeletionQueue' =
                                  UploadRegisters(mainDeletionQueue, pushCount + 1, e)
                            /\ pushCount' = pushCount + 1
                            /\ err' = "VK_SUCCESS"
                       ELSE UNCHANGED << meshInit, mainDeletionQueue, pushCount, err >>
                    /\ recorded' = recorded
                                      \cup (IF bind THEN {Res("pipeline", 0)} ELSE {})
                                      \cup (IF draw THEN {Res("mesh", e)} ELSE {})
                    /\ cmdExtents' = IF bind
                                     THEN [cmdExtents EXCEPT !.viewport = windowExtent]
                                     ELSE cmdExtents
                    /\ drawLog' = Append(drawLog,
                                         [e |-> e, pipeline |-> m.material.pipeline,
                                          uploaded |-> NeedsUpload(meshInit[e]),
                                          bound |-> bind,
                                          drawn |-> draw])
    /\ UNCHANGED << worldVars, initIdx, initFailure, isQuitting, finalCleanupAdded,
                    frameNumber, currentPipeline, swapchainImageIndex, result, width,
                    height, windowExtent, cameraExtent, swapVars, fbVars,
                    pipelinesLive, syncLive, uploadVars, flushLog, flushCount,
                    syncVars, cmdBuf, inFlight, frameState, needsRebuild, envVars >>

\* ------------------------------------------------------------ PostDraw
\* Mutant of SubmitWaitSemaphores: the submission waits on no semaphore.
SubmitWaitsNothing == {}

\* submit.pWaitSemaphores: the submission waits on _presentSemaphore.
SubmitWaitSemaphores == {"_presentSemaphore"}

\* PostDrawStep: end the render pass and the command buffer, then
\* VK_CHECK(vkQueueSubmit) waiting on _presentSemaphore, signaling
\* _renderSemaphore and _renderFence.
PostDrawSubmit ==
    /\ pc = "post_submit"
    /\ presentSem' = presentSem - Cardinality(SubmitWaitSemaphores)
    /\ renderSem' = renderSem + 1
    /\ inFlight' = inFlight \cup recorded \cup {Res("cmd", 0)}
    /\ cmdBuf' = "pending"
    /\ frameState' = "Submitted"
    /\ err' = "VK_SUCCESS"
    /\ pc' = VK_CHECK("VK_SUCCESS", "post_present")
    /\ UNCHANGED << worldVars, initIdx, initFailure, cur, isQuitting, finalCleanupAdded, frameNumber,
                    drawIdx, currentPipeline, swapchainImageIndex, result, width,
                    height, windowExtent, cameraExtent, swapVars, fbVars, resVars,
                    dqVars, renderFence, recorded, cmdExtents, drawLog, needsRebuild,
                    envVars >>

\* PostDrawStep: vkQueuePresentKHR waiting on _renderSemaphore; an out-of-date
\* or suboptimal result takes the empty branch, any other goes to VK_CHECK.
PostDrawPresent ==
    /\ pc = "post_present"
    /\ \E res \in PresentResults(surface) :
          /\ result' = res
          /\ IF res = "VK_ERROR_OUT_OF_DATE_KHR" \/ res = "VK_SUBOPTIMAL_KHR"
             THEN /\ pc' = "post_end"
                  /\ needsRebuild' = TRUE
                  /\ UNCHANGED err
             ELSE /\ pc' = VK_CHECK(res, "post_end")
                  /\ err' = res
                  /\ UNCHANGED needsRebuild
    /\ renderSem' = renderSem - 1
    /\ frameState' = "Presenting"
    /\ UNCHANGED << worldVars, initIdx, initFailure, cur, isQuitting, finalCleanupAdded, frameNumber,
                    drawIdx, currentPipeline, swapchainImageIndex, width, height,
                    windowExtent, cameraExtent, swapVars, fbVars, resVars, dqVars,
                    renderFence, presentSem, gpuVars, envVars >>

\* Mutant of FrameNumberAfter: only a frame presented with success counts.
FrameNumberAfterSuccess(n, res) == IF res = "VK_SUCCESS" THEN n + 1 ELSE n

\* _frameNumber++ follows the present whatever its result was.
FrameNumberAfter(n, res) == n + 1

\* PostDrawStep: _frameNumber++ and return. The local result and the
\* structures the frame's commands were recorded from go out of scope;
\* swapchainImageIndex is not read again before the next acquire overwrites it.
PostDrawEnd ==
    /\ pc = "post_end"
    /\ frameNumber' = FrameNumberAfter(frameNumber, result)
    /\ frameState' = "Idle"
    /\ result' = "VK_SUCCESS"
    /\ swapchainImageIndex' = 0
    /\ cmdExtents' = NothingRecorded
    /\ drawLog' = << >>
    /\ Return
    /\ UNCHANGED << worldVars, initIdx, initFailure, err, isQuitting, finalCleanupAdded, drawIdx,
                    currentPipeline, width, height, windowExtent, cameraExtent,
                    swapVars, fbVars, resVars, dqVars, syncVars, cmdBuf, recorded,
                    inFlight, needsRebuild, envVars >>

\* -------------------------------------------- Housekeeping, FinalCleanup
\* Mutant of AddsFinalCleanup: the phase is added in every tick.
AddsFinalCleanupAlways(quitting) == TRUE

\* if (input->isQuitting): the phase is added only once quit was requested.
AddsFinalCleanup(quitting) == quitting

\* Housekeeping system: on quit, FinalCleanup is added to the pipeline after
\* Housekeeping and the render fence is waited for up to one second; the
\* result of the wait is discarded, so the system returns whether the fence
\* signaled or the wait timed out.
Housekeeping ==
    /\ pc = "housekeeping"
    /\ finalCleanupAdded' = (finalCleanupAdded \/ AddsFinalCleanup(isQuitting))
    /\ Return
    /\ UNCHANGED << worldVars, initIdx, initFailure, err, isQuitting, frameNumber, drawIdx,
                    currentPipeline, swapchainImageIndex, result, width, height,
                    windowExtent, cameraExtent, swapVars, fbVars, resVars, dqVars,
                    syncVars, gpuVars, frameState, needsRebuild, envVars >>

\* FinalCleanup system: Material::Cleanup on every material.
MaterialCleanup ==
    /\ pc = "material_cleanup"
    /\ pipelinesLive' = FALSE
    /\ Return
    /\ UNCHANGED << worldVars, initIdx, initFailure, err, isQuitting, finalCleanupAdded, frameNumber,
                    drawIdx, currentPipeline, swapchainImageIndex, result, width,
                    height, windowExtent, cameraExtent, swapVars, fbVars, meshInit,
                    syncLive, uploadVars, dqVars, syncVars, gpuVars, frameState,
                    needsRebuild, envVars >>

\* ----------------------------------------------------------- destructor
\* ~RenderingECSModule: vkWaitForFences(_renderFence) with a one second
\* timeout; the result is discarded.
DtorWait ==
    /\ pc = "dtor_wait"
    /\ \E res \in WaitResults(renderFence) : pc' = "dtor_flush"
    /\ lifecycleLog' = << "~RenderingECSModule" >>
    /\ UNCHANGED << worldVars, cpuVars, swapVars, framebuffers, fbValid, fbExtent, resVars, dqVars,
                    syncVars, gpuVars, frameState, needsRebuild, envVars >>

\* Destructions of a flush of the queue q, in the order they are performed.
DestroyOpsFlush(q) ==
    LET \* Destructions a release action of the deletion queue performs.
        DestroyOpsOf(kind) ==
            CASE kind = "meshBuffers" -> << "destroy meshBuffers" >>
              [] kind = "syncStructures" ->
                    << "destroy uploadFence", "destroy renderFence",
                       "destroy presentSemaphore", "destroy renderSemaphore" >>
              [] kind = "uploadCommandPool" -> << "destroy uploadCommandPool" >>
    IN  Flatten([i \in 1..Len(q) |-> DestroyOpsOf(FlushOrder(q)[i].kind)])

\* Mutant of DestroyOpsRest: the device is destroyed before the render pass.
DestroyOpsRestDeviceFirst ==
    << "destroy device", "destroy renderPass", "destroy commandPool",
       "destroy allocator", "destroy surface", "destroy debugMessenger",
       "destroy instance", "destroy window" >>

\* Destructions of the last statements of the destructor, in their order.
DestroyOpsRest ==
    << "destroy renderPass", "destroy commandPool", "destroy allocator",
       "destroy device", "destroy surface", "destroy debugMessenger",
       "destroy instance", "destroy window" >>

\* ~RenderingECSModule: CleanupImGui, then _mainDeletionQueue.Flush().
DtorFlush ==
    /\ pc = "dtor_flush"
    /\ flushLog' = flushLog \o FlushOrder(mainDeletionQueue)
    /\ lifecycleLog' = (lifecycleLog \o << "destroy imguiPool" >>)
                           \o DestroyOpsFlush(mainDeletionQueue)
    /\ mainDeletionQueue' = AfterFlush(mainDeletionQueue)
    /\ syncLive' = (syncLive /\ \A i \in 1..Len(mainDeletionQueue) :
                                   mainDeletionQueue[i].kind # "syncStructures")
    /\ flushCount' = flushCount + 1
    /\ pc' = "dtor_fb"
    /\ UNCHANGED << worldVars, cpuVars, swapVars, framebuffers, fbValid, fbExtent, meshInit,
                    pipelinesLive, uploadVars, pushCount, syncVars, gpuVars, frameState,
                    needsRebuild, envVars >>

\* ~RenderingECSModule: CleanupFrameBuffers().
DtorCleanupFrameBuffers ==
    /\ pc = "dtor_fb"
    /\ CleanupFrameBuffers
    /\ lifecycleLog' = lifecycleLog \o DestroyOpsFrameBuffers
    /\ pc' = "dtor_swapchain"
    /\ UNCHANGED << worldVars, cpuVars, swapVars, resVars, dqVars, syncVars, gpuVars,
                    frameState, needsRebuild, envVars >>

\* ~RenderingECSModule: CleanupSwapchain().
DtorCleanupSwapchain ==
    /\ pc = "dtor_swapchain"
    /\ CleanupSwapchain
    /\ lifecycleLog' = lifecycleLog \o DestroyOpsSwapchain
    /\ pc' = "dtor_rest"
    /\ UNCHANGED << worldVars, cpuVars, framebuffers, fbValid, fbExtent, resVars, dqVars, syncVars,
                    gpuVars, frameState, needsRebuild, envVars >>

\* ~RenderingECSModule: render pass, command pool, allocator, device,
\* surface, instance and window are destroyed.
DtorRest ==
    /\ pc = "dtor_rest"
    /\ lifecycleLog' = lifecycleLog \o DestroyOpsRest
    /\ pc' = "done"
    /\ UNCHANGED << worldVars, cpuVars, swapVars, framebuffers, fbValid, fbExtent, resVars,
                    dqVars, syncVars, gpuVars, frameState, needsRebuild, envVars >>

\* ------------------------------------------------------------------ GPU
\* The GPU completes the submitted frame: the render fence signals.
GpuFinish ==
    /\ pc \notin Terminal
    /\ gpuBusy
    /\ inFlight' = {}
    /\ renderFence' = "signaled"
    /\ cmdBuf' = "invalid"
    /\ UNCHANGED << worldVars, pc, cpuVars, swapVars, fbVars, resVars, dqVars, presentSem,
                    renderSem, recorded, cmdExtents, drawLog, frameState,
                    needsRebuild,
                    envVars >>

\* -------------------------------------------------------- window system
Stale(s) == IF swapchain = "valid" THEN {"suboptimal", "outOfDate"} ELSE {s}

\* The program reads the event queue and the window size only at these
\* positions; an event or a new size is taken at the position where the
\* program can first observe it.
ObservesWindow ==
    \/ pc \in {"input_poll", "min_loop", "resize_loop", "resize_getsize",
               "resize_init_swapchain"}
    \/ pc = "ctor" /\ initIdx <= Len(InitOrder) /\ InitOrder[initIdx] = "InitSwapchain"

\* The program learns the state of the surface only from the results of
\* vkAcquireNextImageKHR and vkQueuePresentKHR.
ObservesSurface == pc \in {"pre_acquire", "post_present"}

\* Room of the SDL event queue between two polls. A poll loop sleeps 100 ms
\* per pass, so one more event can queue up there than between the polls of
\* a running tick.
EventCap == IF pc \in {"min_loop", "resize_loop"} THEN MaxEvents + 1 ELSE MaxEvents

\* The user resizes the window: a resize event is queued.
EnvResize ==
    /\ ObservesWindow
    /\ Len(events) < EventCap
    /\ \E w \in Dims, h \in Dims :
          /\ << w, h >> # windowSize
          /\ windowSize' = << w, h >>
    /\ events' = Append(events, "resized")
    /\ surface' \in Stale(surface)
    /\ UNCHANGED << worldVars, pc, cpuVars, swapVars, fbVars, resVars, dqVars, syncVars,
                    gpuVars, frameState, needsRebuild >>

\* The user minimizes the window.
EnvMinimize ==
    /\ ObservesWindow
    /\ Len(events) < EventCap
    /\ ~ZeroArea(windowSize[1], windowSize[2])
    /\ windowSize' = << 0, 0 >>
    /\ events' = Append(events, "minimized")
    /\ surface' \in Stale(surface)
    /\ UNCHANGED << worldVars, pc, cpuVars, swapVars, fbVars, resVars, dqVars, syncVars,
                    gpuVars, frameState, needsRebuild >>

\* The user restores the minimized window.
EnvRestore ==
    /\ ObservesWindow
    /\ Len(events) < EventCap
    /\ windowSize = << 0, 0 >>
    /\ \E w \in Dims \ {0}, h \in Dims \ {0} : windowSize' = << w, h >>
    /\ events' = Append(events, "restored")
    /\ surface' \in Stale(surface)
    /\ UNCHANGED << worldVars, pc, cpuVars, swapVars, fbVars, resVars, dqVars, syncVars,
                    gpuVars, frameState, needsRebuild >>

\* The surface changes under the swapchain without a window event.
EnvSurfaceChange ==
    /\ ObservesSurface
    /\ swapchain = "valid"
    /\ surface = "ok"
    /\ surface' \in {"suboptimal", "outOfDate"}
    /\ UNCHANGED << worldVars, pc, cpuVars, swapVars, fbVars, resVars, dqVars, syncVars,
                    gpuVars, frameState, needsRebuild, windowSize, events >>

\* The user closes the window.
EnvQuit ==
    /\ ObservesWindow
    /\ ~isQuitting
    /\ Len(events) < EventCap
    /\ \A i \in 1..Len(events) : events[i] # "quit"
    /\ events' = Append(events, "quit")
    /\ UNCHANGED << worldVars, pc, cpuVars, swapVars, fbVars, resVars, dqVars, syncVars,
                    gpuVars, frameState, needsRebuild, windowSize, surface >>

\* -------------------------------------------------------- specification
Next ==
    \/ CtorInitChecked
    \/ CtorInitOther
    \/ CtorInitSwapchain
    \/ CtorInitCommands
    \/ CtorInitFrameBuffers
    \/ CtorInitSyncStructures
    \/ CtorInitPipelines
    \/ CtorFinish
    \/ Dispatch
    \/ EndTick
    \/ SimpleSystem
    \/ InputPoll
    \/ OnWindowMinimize
    \/ ResizeGetSize
    \/ ResizeLoop
    \/ ResizeWaitIdle
    \/ ResizeCleanup
    \/ ResizeInitSwapchain
    \/ ResizeInitFrameBuffers
    \/ PreDrawWaitFence
    \/ PreDrawResetFence
    \/ PreDrawAcquire
    \/ PreDrawRecord
    \/ DrawEntity
    \/ PostDrawSubmit
    \/ PostDrawPresent
    \/ PostDrawEnd
    \/ Housekeeping
    \/ MaterialCleanup
    \/ DtorWait
    \/ DtorFlush
    \/ DtorCleanupFrameBuffers
    \/ DtorCleanupSwapchain
    \/ DtorRest
    \/ GpuFinish
    \/ EnvResize
    \/ EnvMinimize
    \/ EnvRestore
    \/ EnvSurfaceChange
    \/ EnvQuit

Spec == Init /\ [][Next]_vars

\* The poll loops of OnWindowMinimize and OnWindowResize sleep 100 ms per
\* pass and then poll again: a pass that can be taken is eventually taken.
LiveSpec == Spec /\ WF_vars(OnWindowMinimize) /\ WF_vars(ResizeLoop)

\* ------------------------------------- the frame loop over every scene
\* The constructor and the ticks of the frame loop for every scene, with a
\* window system that stays quiet.
DrawInit ==
    /\ pc = "ctor"
    /\ scene \in Scenes
    /\ InputInitState
    /\ TransformInitState
    /\ InitState
    /\ UploadInitState(MaxVertices, MaxIndices, MaxTypeSize, MaxTypeSize)

DrawNext ==
    \/ CtorInitChecked
    \/ CtorInitOther
    \/ CtorInitSwapchain
    \/ CtorInitCommands
    \/ CtorInitFrameBuffers
    \/ CtorInitSyncStructures
    \/ CtorInitPipelines
    \/ CtorFinish
    \/ Dispatch
    \/ EndTick
    \/ SimpleSystem
    \/ InputPoll
    \/ PreDrawWaitFence
    \/ PreDrawResetFence
    \/ PreDrawAcquire
    \/ PreDrawRecord
    \/ DrawEntity
    \/ PostDrawSubmit
    \/ PostDrawPresent
    \/ PostDrawEnd
    \/ Housekeeping
    \/ GpuFinish

DrawSpec == DrawInit /\ [][DrawNext]_vars

\* The CPU thread and the GPU keep running while they have a step to take.
DrawFairSpec == DrawSpec /\ WF_vars(DrawNext)

\* ------------------------------------------- deletion queue on its own
\* The deletion queue driven by arbitrary Push and Flush calls.
DQInit ==
    /\ pc = "dq"
    /\ scene = DefaultScene
    /\ InputInitState
    /\ TransformInitState
    /\ InitState
    /\ UploadInitState(MaxVertices, MaxIndices, MaxTypeSize, MaxTypeSize)

DQPush ==
    /\ pc = "dq"
    /\ pushCount < MaxPushes
    /\ \E kind \in {"uploadCommandPool", "syncStructures", "meshBuffers"} :
          mainDeletionQueue' =
             PushDeletor(mainDeletionQueue, Deletor(pushCount + 1, kind, 0))
    /\ pushCount' = pushCount + 1
    /\ UNCHANGED << worldVars, pc, cpuVars, swapVars, fbVars, resVars, flushLog, flushCount,
                    syncVars, gpuVars, frameState, needsRebuild, envVars >>

DQFlush ==
    /\ pc = "dq"
    /\ flushCount < MaxFlushes
    /\ flushLog' = flushLog \o FlushOrder(mainDeletionQueue)
    /\ mainDeletionQueue' = AfterFlush(mainDeletionQueue)
    /\ flushCount' = flushCount + 1
    /\ UNCHANGED << worldVars, pc, cpuVars, swapVars, fbVars, resVars, pushCount, syncVars,
                    gpuVars, frameState, needsRebuild, envVars >>

DQNext == DQPush \/ DQFlush

DQSpec == DQInit /\ [][DQNext]_vars

\* ------------------------------------------------- UploadMesh on its own
SizeofUint32 == 4

\* Bytes of a host array of n bytes, each byte tagged with its origin.
HostBytes(tag, n) == [k \in 1..n |-> << tag, k >>]

\* Memory nobody has written.
Uninit(n) == [k \in 1..n |-> << "uninit", 0 >>]

\* Byte lengths of mesh._vertices and mesh._indices.
VertexBytes == mesh.vertices * sizeofT.SimpleVertex
IndexBytes == mesh.indices * SizeofUint32

\* const size_t verticesBufferSize = mesh._vertices.size() * sizeof(SimpleMesh)
verticesBufferSize == mesh.vertices * sizeofT.SimpleMesh

\* const size_t indicesBufferSize = mesh._indices.size() * sizeof(uint32_t)
indicesBufferSize == mesh.indices * SizeofUint32

\* vmaCreateBuffer rejects a buffer of size zero.
CreateBufferResult(size) ==
    IF size = 0 THEN "VK_ERROR_INITIALIZATION_FAILED" ELSE "VK_SUCCESS"

\* memcpy of n bytes of src into a mapped buffer holding data.
Memcpy(data, src, n) ==
    [k \in 1..Len(data) |-> IF k <= n THEN src[k] ELSE data[k]]

\* Everything UploadMesh and the upload queue leave alone.
uploadFrame ==
    << initIdx, initFailure, cur, isQuitting, finalCleanupAdded, frameNumber,
       drawIdx, currentPipeline, swapchainImageIndex, result, width, height, windowExtent,
       cameraExtent, swapVars, fbVars, pipelinesLive, syncLive, mesh, sizeofT,
       flushLog, flushCount, syncVars, recorded, inFlight, cmdExtents, drawLog,
       frameState, needsRebuild, envVars >>

UploadInit ==
    /\ pc = "up_start"
    /\ scene = DefaultScene
    /\ InputInitState
    /\ TransformInitState
    /\ InitState
    /\ \E n \in 1..MaxVertices, m \in 0..MaxIndices,
          a \in 1..MaxTypeSize, b \in 1..MaxTypeSize :
          UploadInitState(n, m, a, b)

\* UploadMesh: VK_CHECK(vmaCreateBuffer) of the two staging buffers.
UploadCreateStaging ==
    /\ pc = "up_start"
    /\ LET res == IF CreateBufferResult(verticesBufferSize) # "VK_SUCCESS"
                  THEN CreateBufferResult(verticesBufferSize)
                  ELSE CreateBufferResult(indicesBufferSize) IN
         /\ err' = res
         /\ pc' = VK_CHECK(res, "up_memcpy")
         /\ staging' =
               IF res = "VK_SUCCESS"
               THEN [v |-> [size |-> verticesBufferSize,
                            data |-> Uninit(verticesBufferSize), live |-> TRUE],
                     i |-> [size |-> indicesBufferSize,
                            data |-> Uninit(indicesBufferSize), live |-> TRUE]]
               ELSE staging
    /\ UNCHANGED << worldVars, uploadFrame, cmdBuf, meshInit, device, uploadFence,
                    uploadCmd, uploadPending, uploadErr, mainDeletionQueue, pushCount >>

\* UploadMesh: the two memcpy into the mapped staging buffers. Writing past
\* the end of the vertex staging buffer is undefined (crash, or the bytes
\* that fit are in the buffer).
UploadMemcpy ==
    /\ pc = "up_memcpy"
    /\ staging' =
          [v |-> [staging.v EXCEPT
                    !.data = Memcpy(@, HostBytes("V", VertexBytes), VertexBytes)],
           i |-> [staging.i EXCEPT
                    !.data = Memcpy(@, HostBytes("I", IndexBytes), IndexBytes)]]
    /\ IF VertexBytes <= staging.v.size
       THEN pc' = "up_create_device"
       ELSE pc' \in {"crashed", "up_create_device"}
    /\ UNCHANGED << worldVars, uploadFrame, cmdBuf, err, meshInit, device, uploadFence,
                    uploadCmd, uploadPending, uploadErr, mainDeletionQueue, pushCount >>

\* UploadMesh: VK_CHECK(vmaCreateBuffer) of the two device-local buffers.
UploadCreateDevice ==
    /\ pc = "up_create_device"
    /\ device' = [v |-> [size |-> verticesBufferSize,
                         data |-> Uninit(verticesBufferSize), live |-> TRUE],
                  i |-> [size |-> indicesBufferSize,
                         data |-> Uninit(indicesBufferSize), live |-> TRUE]]
    /\ pc' = VK_CHECK("VK_SUCCESS", "up_submit_v")
    /\ UNCHANGED << worldVars, uploadFrame, cmdBuf, err, meshInit, staging, uploadFence,
                    uploadCmd, uploadPending, uploadErr, mainDeletionQueue, pushCount >>

\* The copy the lambda of each ImmediateSubmit call records.
CopyOf(which) ==
    [which |-> which,
     size |-> IF which = "v" THEN verticesBufferSize ELSE indicesBufferSize]

\* ImmediateSubmit: the copy is recorded into _uploadContext._commandBuffer
\* and submitted with the upload fence. Beginning a command buffer that is
\* not in the initial state, or submitting with a fence that is signaled or
\* still has a submission pending, is undefined (crash, or the call goes on).
ImmediateSubmitSubmit ==
    /\ pc \in {"up_submit_v", "up_submit_i"}
    /\ uploadPending' =
          uploadPending \cup {CopyOf(IF pc = "up_submit_v" THEN "v" ELSE "i")}
    /\ uploadCmd' = "pending"
    /\ LET next == VK_CHECK("VK_SUCCESS",
                            IF pc = "up_submit_v" THEN "up_wait_v" ELSE "up_wait_i") IN
         IF uploadCmd = "initial" /\ uploadFence = "unsignaled" /\ uploadPending = {}
         THEN pc' = next
         ELSE pc' \in {"crashed", next}
    /\ UNCHANGED << worldVars, uploadFrame, cmdBuf, err, meshInit, staging, device,
                    uploadFence, uploadErr, mainDeletionQueue, pushCount >>

\* Mutant of ImmediateSubmitResetPool: the pool of the frame is reset.
ImmediateSubmitResetsMainPool == "_commandPool"

\* The pool ImmediateSubmit hands to vkResetCommandPool.
ImmediateSubmitResetPool == "_uploadContext._commandPool"

\* vkResetCommandPool(pool): every command buffer of the pool goes back to
\* the initial state, the others keep theirs.
ResetCommandPool(pool, cb, state) ==
    LET \* Command buffers and the pool each was allocated from.
        CommandPoolOf(c) ==
            IF c = "_mainCommandBuffer" THEN "_commandPool"
            ELSE "_uploadContext._commandPool"
    IN  IF CommandPoolOf(cb) = pool THEN "initial" ELSE state

\* ImmediateSubmit: vkWaitForFences on the upload fence with a timeout of
\* 9999999999 ns, then vkResetFences and vkResetCommandPool. Resetting the
\* pool of a command buffer the GPU still executes is undefined (crash, or
\* the copy goes on).
ImmediateSubmitWait ==
    /\ pc \in {"up_wait_v", "up_wait_i"}
    /\ \E res \in WaitResults(uploadFence) :
          /\ uploadErr' = res
          \* the result of vkWaitForFences is discarded
          /\ LET next == IF pc = "up_wait_v" THEN "up_submit_i" ELSE "up_finish" IN
               /\ uploadFence' = "unsignaled"
               /\ uploadCmd' = ResetCommandPool(ImmediateSubmitResetPool,
                                                "_uploadContext._commandBuffer",
                                                uploadCmd)
               /\ cmdBuf' = ResetCommandPool(ImmediateSubmitResetPool,
                                             "_mainCommandBuffer", cmdBuf)
               /\ IF uploadPending = {}
                  THEN pc' = next
                  ELSE pc' \in {"crashed", next}
    /\ UNCHANGED << worldVars, uploadFrame, err, meshInit, staging, device, uploadPending,
                    mainDeletionQueue, pushCount >>

\* UploadMesh: the release of the two device-local buffers is pushed to the
\* deletion queue, then both staging buffers are destroyed.
UploadFinish ==
    /\ pc = "up_finish"
    /\ mainDeletionQueue' = UploadRegisters(mainDeletionQueue, pushCount + 1, drawIdx)
    /\ pushCount' = pushCount + 1
    /\ staging' = [v |-> [staging.v EXCEPT !.live = FALSE],
                   i |-> [staging.i EXCEPT !.live = FALSE]]
    /\ meshInit' = [meshInit EXCEPT ![drawIdx] = TRUE]
    /\ pc' = "up_done"
    /\ UNCHANGED << worldVars, uploadFrame, cmdBuf, err, device, uploadFence, uploadCmd,
                    uploadPending, uploadErr >>

\* The GPU executes a submitted copy: the destination receives the bytes of
\* the staging buffer, or whatever the freed memory holds if the staging
\* buffer was destroyed; the fence of the submission signals.
UploadGpuCopy ==
    /\ pc \notin Terminal
    /\ \E c \in uploadPending :
          /\ uploadPending' = uploadPending \ {c}
          /\ device' =
                [device EXCEPT ![c.which].data =
                    IF staging[c.which].live
                    THEN Memcpy(@, staging[c.which].data, c.size)
                    ELSE Uninit(c.size)]
    /\ uploadFence' = "signaled"
    /\ uploadCmd' = IF uploadCmd = "pending" /\ uploadPending' = {}
                    THEN "invalid" ELSE uploadCmd
    /\ UNCHANGED << worldVars, pc, uploadFrame, cmdBuf, err, meshInit, staging, uploadErr,
                    mainDeletionQueue, pushCount >>

UploadNext ==
    \/ UploadCreateStaging
    \/ UploadMemcpy
    \/ UploadCreateDevice
    \/ ImmediateSubmitSubmit
    \/ ImmediateSubmitWait
    \/ UploadFinish
    \/ UploadGpuCopy

UploadSpec == UploadInit /\ [][UploadNext]_vars

\* ------------------------------- UploadMesh inside the frame being recorded
\* The mesh system is about to call UploadMesh for the entity at drawIdx.
CallsUploadMesh ==
    /\ pc = "draw_loop"
    /\ scene.camera # "none"
    /\ drawIdx <= NumEntities
    /\ ~SkipEntity(scene.ents[drawIdx])
    /\ NeedsUpload(meshInit[drawIdx])

\* The mesh system enters UploadMesh.
DrawUploadMesh ==
    /\ CallsUploadMesh
    /\ pc' = "up_start"
    /\ UNCHANGED << worldVars, cpuVars, swapVars, fbVars, resVars, dqVars, syncVars,
                    gpuVars, frameState, needsRebuild, envVars >>

\* UploadMesh returns to the loop of the mesh system.
DrawUploadReturn ==
    /\ pc = "up_done"
    /\ pc' = "draw_loop"
    /\ UNCHANGED << worldVars, cpuVars, swapVars, fbVars, resVars, dqVars, syncVars,
                    gpuVars, frameState, needsRebuild, envVars >>

\* The rest of the loop body, and the entities that need no upload.
DrawEntityUploaded == ~CallsUploadMesh /\ DrawEntity

\* The constructor and the ticks of the frame loop with every step of
\* UploadMesh and of the upload queue, under a window system that stays quiet.
FrameUploadNext ==
    \/ CtorInitChecked
    \/ CtorInitOther
    \/ CtorInitSwapchain
    \/ CtorInitCommands
    \/ CtorInitFrameBuffers
    \/ CtorInitSyncStructures
    \/ CtorInitPipelines
    \/ CtorFinish
    \/ Dispatch
    \/ EndTick
    \/ SimpleSystem
    \/ InputPoll
    \/ PreDrawWaitFence
    \/ PreDrawResetFence
    \/ PreDrawAcquire
    \/ PreDrawRecord
    \/ DrawUploadMesh
    \/ UploadCreateStaging
    \/ UploadMemcpy
    \/ UploadCreateDevice
    \/ ImmediateSubmitSubmit
    \/ ImmediateSubmitWait
    \/ UploadFinish
    \/ UploadGpuCopy
    \/ DrawUploadReturn
    \/ DrawEntityUploaded
    \/ PostDrawSubmit
    \/ PostDrawPresent
    \/ PostDrawEnd
    \/ Housekeeping
    \/ GpuFinish

FrameUploadSpec == Init /\ [][FrameUploadNext]_vars

\* ---------------------------------------------------- Input on its own
\* Maps from keycode to down flag with any set of keys present.
KeyFlagMaps == UNION {[D -> BOOLEAN] : D \in SUBSET Keycodes}

GetState(keycode) ==
    LET \* Value of find(keycode) on a map: the stored flag, false when absent.
        KeyFlag(flags, key) == IF key \in DOMAIN flags THEN flags[key] ELSE FALSE
        prevFlag == KeyFlag(prevKeyFlags, keycode)
        currFlag == KeyFlag(currKeyFlags, keycode)
    IN  IF ~prevFlag /\ currFlag THEN "Pressed"
        ELSE IF prevFlag /\ currFlag THEN "Held"
        ELSE IF prevFlag /\ ~currFlag THEN "Released"
        ELSE "Idle"

IsPressed(keycode) == GetState(keycode) = "Pressed"

IsHeldOnlyHeld(keycode) == GetState(keycode) = "Held"

IsHeld(keycode) == GetState(keycode) = "Pressed" \/ GetState(keycode) = "Held"

IsIdle(keycode) == GetState(keycode) = "Idle"

\* An Input with any maps, as the event handling of a tick can leave it.
InputInit ==
    /\ pc = "input"
    /\ scene = DefaultScene
    /\ prevKeyFlags \in KeyFlagMaps
    /\ currKeyFlags \in KeyFlagMaps
    /\ keyQuery = NoQuery
    /\ TransformInitState
    /\ InitState
    /\ UploadInitState(MaxVertices, MaxIndices, MaxTypeSize, MaxTypeSize)

\* What the queries leave alone: the maps (they are const methods) and the
\* rest of the program.
inputFrame ==
    << pc, scene, prevKeyFlags, currKeyFlags, transformVars, cpuVars, swapVars,
       fbVars, resVars, dqVars, syncVars, gpuVars, frameState, needsRebuild,
       envVars >>

InputGetState ==
    /\ pc = "input"
    /\ \E k \in Keycodes :
          keyQuery' = [op |-> "GetState", keycode |-> k, state |-> GetState(k),
                       value |-> FALSE]
    /\ UNCHANGED inputFrame

InputIsPressed ==
    /\ pc = "input"
    /\ \E k \in Keycodes :
          keyQuery' = [op |-> "IsPressed", keycode |-> k, state |-> "none",
                       value |-> IsPressed(k)]
    /\ UNCHANGED inputFrame

InputIsHeld ==
    /\ pc = "input"
    /\ \E k \in Keycodes :
          keyQuery' = [op |-> "IsHeld", keycode |-> k, state |-> "none",
                       value |-> IsHeld(k)]
    /\ UNCHANGED inputFrame

InputIsIdle ==
    /\ pc = "input"
    /\ \E k \in Keycodes :
          keyQuery' = [op |-> "IsIdle", keycode |-> k, state |-> "none",
                       value |-> IsIdle(k)]
    /\ UNCHANGED inputFrame

InputNext == InputGetState \/ InputIsPressed \/ InputIsHeld \/ InputIsIdle

InputSpec == InputInit /\ [][InputNext]_vars

\* ------------------------------------------------ Transform on its own
\* The Transform component of entity n: absent, or present with its entity
\* handle either never set or naming the entity that carries it, and with a
\* position (one axis of the Vec3) of 1 or 2.
TransformsOf(n) ==
    {[present |-> FALSE, entity |-> NullEntity, position |-> 0]}
    \cup {[present |-> TRUE, entity |-> h, position |-> x] :
             h \in {NullEntity, n}, x \in {1, 2}}

\* Entity stores of the first n entities: every entity has a parent created
\* before it or none, so the parent relation has no cycle.
RECURSIVE StoresUpTo(_)
StoresUpTo(n) ==
    IF n = 0 THEN {<< >>}
    ELSE {Append(st, r) : st \in StoresUpTo(n - 1),
                          r \in [parent : NullEntity..(n - 1),
                                 transform : TransformsOf(n)]}

\* entity.parent(): the parent, the null entity for an entity without one.
ParentOf(e) == transforms[e].parent

\* e.get<Transform>(): the Transform of e, nullptr when e is the null entity
\* or has no Transform. A Transform pointer is named by its entity.
GetTransform(e) ==
    IF e # NullEntity /\ transforms[e].transform.present THEN e ELSE NullEntity

\* GetParent of the Transform of entity t: throws when the handle was never set.
GetParent(t) ==
    IF transforms[t].transform.entity = NullEntity
       THEN [threw |-> TRUE, parent |-> NullEntity]
       ELSE [threw |-> FALSE, parent |-> ParentOf(transforms[t].transform.entity)]

\* TryGetParent: the exception of GetParent is caught and reported as false.
TryGetParent(t) ==
    IF GetParent(t).threw
       THEN [ok |-> FALSE, parentEntity |-> NullEntity]
       ELSE [ok |-> TRUE, parentEntity |-> GetParent(t).parent]

TryGetParentTransform(t) ==
    IF ~TryGetParent(t).ok
       THEN [ok |-> FALSE, transform |-> NullEntity]
       ELSE IF GetTransform(TryGetParent(t).parentEntity) = NullEntity
               THEN [ok |-> FALSE, transform |-> NullEntity]
               ELSE [ok |-> TRUE,
                     transform |-> GetTransform(TryGetParent(t).parentEntity)]

AccumulateNothing(absPosition, position) == absPosition

\* absPosition -= currentTransform->position
Accumulate(absPosition, position) == absPosition - position

TransformInit ==
    /\ pc = "transform"
    /\ scene = DefaultScene
    /\ InputInitState
    /\ transforms \in StoresUpTo(MaxNodes)
    /\ walk = NoWalk
    /\ InitState
    /\ UploadInitState(MaxVertices, MaxIndices, MaxTypeSize, MaxTypeSize)

transformFrame ==
    << pc, scene, inputVars, transforms, cpuVars, swapVars, fbVars, resVars,
       dqVars, syncVars, gpuVars, frameState, needsRebuild, envVars >>

\* GetAbsPosition is entered on the Transform of an entity.
GetAbsPositionCall ==
    /\ pc = "transform"
    /\ walk.pc = "idle"
    /\ \E e \in Nodes :
          /\ transforms[e].transform.present
          /\ walk' = [pc |-> "loop", self |-> e, currentTransform |-> e,
                      absPosition |-> transforms[e].transform.position,
                      visited |-> << >>]
    /\ UNCHANGED transformFrame

\* One evaluation of the loop condition, and the body when it is true.
GetAbsPositionLoop ==
    /\ pc = "transform"
    /\ walk.pc = "loop"
    /\ LET r == TryGetParentTransform(walk.currentTransform)
       IN  IF r.ok
              THEN walk' = [walk EXCEPT
                      !.currentTransform = r.transform,
                      !.absPosition =
                          Accumulate(@, transforms[r.transform].transform.position),
                      !.visited = Append(@, r.transform)]
              ELSE walk' = [walk EXCEPT !.pc = "returned",
                                        !.currentTransform = r.transform]
    /\ UNCHANGED transformFrame

TransformNext == GetAbsPositionCall \/ GetAbsPositionLoop

TransformSpec == TransformInit /\ [][TransformNext]_vars

\* The loop is straight-line code on one thread: it takes its next pass.
TransformFairSpec == TransformSpec /\ WF_vars(GetAbsPositionLoop)

\* ================================================================ claims

\* C1: whenever the destructor calls _mainDeletionQueue.Flush(), the render
\* fence of the last submitted frame has signaled, also when the preceding
\* vkWaitForFences timed out.
C1_FlushOnlyAfterFenceSignaled ==
    [][(pc = "dtor_flush" /\ pc' = "dtor_fb") => renderFence = "signaled"]_vars

\* C2: the flush runs the queued release actions in exact reverse insertion
\* order: mesh buffers first (latest upload first), then the fences and
\* semaphores, then the upload command pool.
C2_FlushReverseInsertionOrder ==
    LET \* Rank of a release action in the order required at shutdown.
        ReleaseRank(kind) ==
            CASE kind = "meshBuffers" -> 1
              [] kind = "syncStructures" -> 2
              [] kind = "uploadCommandPool" -> 3
    IN
    flushCount > 0 =>
        /\ Len(flushLog) = pushCount
        /\ \A i \in 1..Len(flushLog) : flushLog[i].id = pushCount + 1 - i
        /\ \A i \in 1..Len(flushLog) : \A j \in i..Len(flushLog) :
              ReleaseRank(flushLog[i].kind) <= ReleaseRank(flushLog[j].kind)
        /\ \A i \in 1..Len(flushLog) : \A j \in (i + 1)..Len(flushLog) :
              (flushLog[i].kind = "meshBuffers" /\ flushLog[j].kind = "meshBuffers")
                 => flushLog[i].n > flushLog[j].n

\* C2 witness: the module was torn down after every mesh had been uploaded.
C2_Witness ==
    /\ pc = "done"
    /\ Len(flushLog) = NumEntities + 2
    /\ flushLog[1].kind = "meshBuffers"

\* C3: each pushed action is executed at most once; a drain leaves the queue
\* empty, and a drain with nothing pushed since the last one executes nothing.
C3_DrainAtMostOnce ==
    /\ [](/\ \A i \in 1..Len(flushLog) : \A j \in 1..Len(flushLog) :
                flushLog[i].id = flushLog[j].id => i = j
          /\ \A i \in 1..Len(flushLog) : \A j \in 1..Len(mainDeletionQueue) :
                flushLog[i].id # mainDeletionQueue[j].id)
    /\ [][flushCount' = flushCount + 1 =>
             /\ mainDeletionQueue' = << >>
             /\ Len(flushLog') = Len(flushLog) + Len(mainDeletionQueue)
             /\ (mainDeletionQueue = << >> => flushLog' = flushLog)]_vars

\* C3 witness: several drains, some after pushes, and the queue is empty.
C3_Witness ==
    /\ flushCount >= 2
    /\ Len(flushLog) = pushCount
    /\ pushCount >= 2
    /\ mainDeletionQueue = << >>

\* C4: the frame state machine moves only Idle, Acquired, Recording,
\* Submitted, Presenting, Idle; BeginFrame never completes twice without a
\* Submit and a Present in between.
C4_FrameStateMachine ==
    [][frameState' # frameState =>
          << frameState, frameState' >> \in
              { << "Idle", "Acquired" >>, << "Acquired", "Recording" >>,
                << "Recording", "Submitted" >>, << "Submitted", "Presenting" >>,
                << "Presenting", "Idle" >> }]_vars

\* C4 witness: a second frame was begun after a first was presented.
C4_Witness ==
    /\ frameNumber >= 1
    /\ frameState = "Acquired"

\* C5: each semaphore has at most one outstanding signal.
C5_OneOutstandingSignal ==
    /\ presentSem \in {0, 1}
    /\ renderSem \in {0, 1}

\* C5 witness: the second frame has been submitted: its acquire signal was
\* consumed and its render signal is outstanding.
C5_Witness ==
    /\ pc = "post_present"
    /\ frameNumber >= 1
    /\ presentSem = 0
    /\ renderSem = 1

\* C6: while the GPU executes the submitted frame, the command buffer stays
\* pending and every resource the frame references stays live.
C6_NoTouchWhileInFlight ==
    LET \* A resource is live: created and not destroyed.
        Live(r) ==
            CASE r.kind = "framebuffer" -> framebuffers > 0
              [] r.kind = "depth" -> depth
              [] r.kind = "pipeline" -> pipelinesLive
              [] r.kind = "mesh" ->
                    /\ meshInit[r.n]
                    /\ \A i \in 1..Len(flushLog) :
                          ~(flushLog[i].kind = "meshBuffers" /\ flushLog[i].n = r.n)
              [] OTHER -> TRUE
    IN
    /\ \A r \in inFlight : Live(r)
    /\ gpuBusy => cmdBuf = "pending"

\* C7: a timeout of the fence wait or of the image acquisition ends the
\* process, and nothing of the frame runs after it.
C7_TimeoutIsFatal ==
    /\ [](err = "VK_TIMEOUT" => pc = "aborted")
    /\ [][pc = "aborted" =>
             /\ pc' = "aborted"
             /\ UNCHANGED << frameState, renderFence, cmdBuf, recorded, inFlight,
                             presentSem, renderSem, frameNumber >>]_vars

\* C7 witness: the fence wait timed out while the GPU was still busy.
C7_Witness ==
    /\ pc = "aborted"
    /\ err = "VK_TIMEOUT"
    /\ gpuBusy
    /\ frameState = "Idle"

\* C8: after a Present that reported an out-of-date or suboptimal surface the
\* process is alive and the swapchain is recreated before the next frame begins.
C8_RebuildBeforeNextFrame ==
    needsRebuild => pc \notin {"aborted", "pre_wait", "pre_reset", "pre_acquire", "pre_record"}

\* C9: an out-of-date or suboptimal surface never ends the process.
C9_SurfaceErrorNotFatal ==
    ~(pc = "aborted" /\ err \in {"VK_ERROR_OUT_OF_DATE_KHR", "VK_SUBOPTIMAL_KHR"})

\* C10: after initialization and after every Recreate the framebuffers, the
\* swapchain images and the image views are equal in number.
C10_CountsEqual ==
    LET \* Positions at which the swapchain resources are not being rebuilt
        \* or torn down.
        Settled ==
            pc \notin {"ctor", "resize_cleanup", "resize_init_swapchain",
                       "resize_init_fb", "dtor_swapchain", "dtor_rest", "done",
                       "aborted", "crashed", "exited"}
    IN
    Settled => (framebuffers = swapchainImages /\ swapchainImages = swapchainImageViews)

\* C11: the minimize-block returns only with a window extent whose dimensions
\* are both strictly positive, and OnWindowResize reaches its rebuild only
\* with width > 0 and height > 0.
C11_PositiveExtent ==
    /\ [][(pc = "min_loop" /\ pc' = "input_poll") =>
             ~ZeroArea(windowSize'[1], windowSize'[2])]_vars
    /\ [](pc \in {"resize_idle", "resize_cleanup", "resize_init_swapchain"} =>
             (width > 0 /\ height > 0))

\* Positions inside OnWindowResize.
InRecreate ==
    pc \in {"resize_getsize", "resize_loop", "resize_idle", "resize_cleanup",
            "resize_init_swapchain", "resize_init_fb"}

\* The swapchain-derived resources.
SwapchainDerived ==
    << swapchain, swapchainImages, swapchainImageViews, depth, framebuffers, fbValid >>

IsCreate(op) == op \in {"create swapchain", "create imageViews", "create depthImage",
                        "create depthImageView", "create framebuffers"}

\* The history is that of the given function.
LogOf(fn) == lifecycleLog # << >> /\ Head(lifecycleLog) = fn

\* C14: OnWindowResize destroys framebuffers, depth view and image, image
\* views and swapchain in that order, creates nothing before every old
\* resource is destroyed, and creates the swapchain and the depth target
\* before the framebuffers that reference them.
C14_RecreateOrder ==
    /\ [](LET log == lifecycleLog
              \* Rank of a destruction in the reverse-dependency order.
              DestroyRank(op) ==
                  CASE op = "destroy framebuffers" -> 1
                    [] op = "destroy depthImageView" -> 2
                    [] op = "destroy depthImage" -> 3
                    [] op = "destroy imageViews" -> 4
                    [] op = "destroy swapchain" -> 5
                    [] OTHER -> 0
              IsDestroy(op) == DestroyRank(op) > 0
              \* Old resources are destroyed framebuffers first, swapchain last.
              DestroyedInOrder ==
                  \A i \in 1..Len(log) : \A j \in (i + 1)..Len(log) :
                      (IsDestroy(log[i]) /\ IsDestroy(log[j]))
                          => DestroyRank(log[i]) < DestroyRank(log[j])
              \* Nothing is destroyed after the first creation.
              DestroyedBeforeCreated ==
                  \A i \in 1..Len(log) : \A j \in (i + 1)..Len(log) :
                      IsCreate(log[i]) => ~IsDestroy(log[j])
              \* Framebuffers are created after the swapchain and the depth
              \* target.
              CreatedInOrder ==
                  \A k \in 1..Len(log) :
                      log[k] = "create framebuffers" =>
                          /\ \E i \in 1..(k - 1) : log[i] = "create swapchain"
                          /\ \E i \in 1..(k - 1) : log[i] = "create depthImageView"
          IN LogOf("OnWindowResize") =>
                 (DestroyedInOrder /\ DestroyedBeforeCreated /\ CreatedInOrder))
    /\ [][(InRecreate /\ Len(lifecycleLog') > Len(lifecycleLog)
              /\ IsCreate(lifecycleLog'[Len(lifecycleLog) + 1])
              /\ ~(\E i \in 1..Len(lifecycleLog) : IsCreate(lifecycleLog[i])))
            => (framebuffers = 0 /\ ~depth /\ swapchainImageViews = 0
                   /\ swapchain = "null")]_vars

\* C15: when OnWindowResize returns, the extent of the MainCamera equals
\* windowExtent and the extent the new depth target and framebuffers were
\* built with; neither changes outside OnWindowResize, and the render area,
\* viewport and scissor recorded later use the same extent.
C15_ExtentPublished ==
    /\ [][(pc = "resize_init_fb" /\ pc' = "input_poll") =>
             /\ cameraExtent' = windowExtent'
             /\ (depth' => depthExtent' = windowExtent')
             /\ (framebuffers' > 0 => fbExtent' = windowExtent')]_vars
    /\ [][(cameraExtent' # cameraExtent \/ windowExtent' # windowExtent) =>
             pc = "resize_cleanup"]_vars
    /\ [](LET \* An extent used while recording equals windowExtent, the
              \* extent of the framebuffers and of the depth target, and,
              \* once OnWindowResize has published one, the extent of the
              \* MainCamera.
              UsesPublishedExtent(e) ==
                  e # NoExtent =>
                      /\ e = windowExtent
                      /\ (framebuffers > 0 => fbExtent = e)
                      /\ (depth => depthExtent = e)
                      /\ (windowExtent # InitialExtent => cameraExtent = e)
          IN /\ UsesPublishedExtent(cmdExtents.renderArea)
             /\ UsesPublishedExtent(cmdExtents.viewport))

\* C15 witness: a frame is recorded with the extent a resize has published.
C15_Witness ==
    /\ pc = "post_submit"
    /\ windowExtent # InitialExtent
    /\ cmdExtents.renderArea = windowExtent
    /\ cmdExtents.viewport = cameraExtent
    /\ depthExtent = windowExtent
    /\ fbExtent = windowExtent

\* C16: after UploadMesh the device-local vertex buffer holds exactly the
\* bytes of mesh._vertices and the index buffer exactly the bytes of
\* mesh._indices; staging sizes, destination sizes and copy sizes equal the
\* byte lengths (count times size of one vertex, count times 4).
C16_UploadRoundTrip ==
    (pc = "up_done" /\ uploadPending = {}) =>
        /\ device.v.size = VertexBytes
        /\ device.v.data = HostBytes("V", VertexBytes)
        /\ device.i.size = IndexBytes
        /\ device.i.data = HostBytes("I", IndexBytes)
        /\ staging.v.size = VertexBytes
        /\ staging.i.size = IndexBytes
        /\ CopyOf("v").size = VertexBytes
        /\ CopyOf("i").size = IndexBytes

\* C17: a staging buffer is destroyed only after the GPU copy reading it
\* has completed, also when the wait for the upload fence timed out.
C17_StagingOutlivesCopy ==
    [][\A which \in {"v", "i"} :
          (staging[which].live /\ ~staging'[which].live) =>
              (\A c \in uploadPending : c.which # which)]_vars

\* C18: when the upload fence is not signaled within the timeout, the upload
\* fails: the fence and the command pool are not reset, the staging buffers
\* are not destroyed, and the mesh does not count as uploaded.
C18_UploadTimeoutFails ==
    /\ [][(pc \in {"up_wait_v", "up_wait_i"} /\ pc' # pc
              /\ uploadErr' = "VK_TIMEOUT")
            => (pc' = "aborted" /\ UNCHANGED << uploadFence, staging, meshInit >>)]_vars
    /\ [](uploadErr = "VK_TIMEOUT" =>
             (pc = "aborted" /\ staging.v.live /\ staging.i.live /\ ~meshInit[1]))

\* Number of release actions for the buffers of mesh e in a sequence of actions.
SeqCount(q, e) ==
    Cardinality({i \in 1..Len(q) : q[i].kind = "meshBuffers" /\ q[i].n = e})

\* C19: every uploaded mesh has the release of its two device-local buffers
\* registered with the deletion queue exactly once; the buffers are released
\* only by the flush of the destructor, never while frames are drawn, and
\* exactly once.
C19_MeshBuffersReleasedAtFlush ==
    /\ [](\A e \in Entities :
             /\ meshInit[e] =>
                   SeqCount(mainDeletionQueue, e) + SeqCount(flushLog, e) = 1
             /\ SeqCount(flushLog, e) <= 1
             /\ SeqCount(flushLog, e) = 1 =>
                   pc \in {"dtor_fb", "dtor_swapchain", "dtor_rest", "done"})
    /\ [][\A e \in Entities :
             SeqCount(flushLog', e) # SeqCount(flushLog, e) =>
                 (pc = "dtor_flush" /\ SeqCount(mainDeletionQueue', e) = 0)]_vars

\* C19 witness: the flush has released the buffers of every mesh after two
\* frames drew them.
C19_Witness ==
    /\ pc = "dtor_fb"
    /\ frameNumber >= 2
    /\ \A e \in Entities : meshInit[e] /\ SeqCount(flushLog, e) = 1

\* Rank of a stage in the fixed order of a tick.
StageRank(kind) ==
    CASE kind = "InputUpdate" -> 1
      [] kind = "Update" -> 2
      [] kind = "Collisions" -> 3
      [] kind = "PreDraw" -> 4
      [] kind = "Draw" -> 5
      [] kind = "PostDraw" -> 6
      [] kind = "Housekeeping" -> 7
      [] kind = "FinalCleanup" -> 8

\* The system a position of the CPU thread belongs to.
SystemOf(p) ==
    CASE p \in {"input_poll", "min_loop", "resize_getsize", "resize_loop",
                "resize_idle", "resize_cleanup", "resize_init_swapchain",
                "resize_init_fb"} -> "InputPoll"
      [] p \in {"pre_wait", "pre_reset", "pre_acquire", "pre_record"} -> "PreDrawStep"
      [] p = "fps" -> "DisplayFPSCounter"
      [] p = "draw_loop" -> "DrawMeshes"
      [] p \in {"post_submit", "post_present", "post_end"} -> "PostDrawStep"
      [] p = "toggle" -> "ToggleFullscreen"
      [] p = "housekeeping" -> "Housekeeping"
      [] p = "material_cleanup" -> "MaterialCleanup"
      [] OTHER -> "none"

\* C20: in every tick the systems run stage by stage in the order
\* InputUpdate, Update, Collisions, PreDraw, Draw, PostDraw, Housekeeping,
\* each system once and one after the other, although the rendering module
\* registers them in the order PreDraw, PostDraw, Draw, Draw, Update,
\* Housekeeping.
C20_StageOrder ==
    /\ [](LET order == RunOrder(finalCleanupAdded) IN
            /\ [i \in 1..(Len(Systems) - 2) |-> Systems[i + 1].kind] =
                  << "PreDraw", "PostDraw", "Draw", "Draw", "Update", "Housekeeping" >>
            /\ \A i \in 1..Len(order) : \A j \in (i + 1)..Len(order) :
                  /\ StageRank(order[i].kind) <= StageRank(order[j].kind)
                  /\ order[i].name # order[j].name
            /\ \A k \in 1..Len(Systems) :
                  (Systems[k].kind # "FinalCleanup" \/ finalCleanupAdded) =>
                      \E i \in 1..Len(order) : order[i] = Systems[k]
            /\ SystemOf(pc) # "none" =>
                  (cur <= Len(order) /\ order[cur].name = SystemOf(pc)))
    /\ [][cur' # cur =>
             \/ cur' = cur + 1 /\ SystemOf(pc) # "none" /\ pc' = "sched"
             \/ cur' = 1 /\ pc = "sched" /\ cur > Len(RunOrder(finalCleanupAdded))]_vars

\* C20 witness: the Housekeeping system runs last in the second tick, after
\* the PostDraw system that was registered second.
C20_Witness ==
    /\ pc = "housekeeping"
    /\ frameNumber >= 2
    /\ cur = Len(RunOrder(FALSE))

C22_LaterStagesStillRun ==
    (/\ pc \in {"aborted", "thrown"}
     /\ cur <= Len(RunOrder(finalCleanupAdded))
     /\ StageRank(RunOrder(finalCleanupAdded)[cur].kind) < StageRank("Housekeeping"))
        ~> (pc = "housekeeping")

\* C23: the FinalCleanup stage joins the pipeline only in the Housekeeping
\* system of a tick in which quit was requested, and is then the last stage:
\* no FinalCleanup system runs before quit was observed, and one that runs
\* does so after the Housekeeping system and every other system of its tick.
C23_FinalCleanupLast ==
    /\ [](LET order == RunOrder(finalCleanupAdded) IN
            /\ \A i \in 1..Len(order) :
                  order[i].kind = "FinalCleanup" =>
                      /\ finalCleanupAdded
                      /\ \A j \in 1..Len(order) :
                            order[j].kind # "FinalCleanup" => j < i
            /\ pc = "material_cleanup" =>
                  /\ isQuitting
                  /\ finalCleanupAdded
                  /\ \E i \in 1..(cur - 1) : order[i].name = "Housekeeping"
                  /\ \A i \in 1..Len(order) :
                        order[i].kind # "FinalCleanup" => i < cur)
    /\ [][finalCleanupAdded' # finalCleanupAdded =>
             /\ pc = "housekeeping"
             /\ isQuitting
             /\ finalCleanupAdded']_vars

\* C23 witness: the FinalCleanup system runs in a tick after the first.
C23_Witness ==
    /\ pc = "material_cleanup"
    /\ frameNumber >= 2
    /\ pipelinesLive

\* C24: within one frame BindPipeline is invoked for the first drawn entity
\* and for every later one whose pipeline differs from that of the entity
\* drawn before it, and for no other.
C24_BindMinimized ==
    LET \* Entities drawn so far in this frame, in draw order.
        Drawn == SelectSeq(drawLog, LAMBDA d : d.drawn)
    IN
    \A i \in 1..Len(Drawn) :
        Drawn[i].bound <=> (i = 1 \/ Drawn[i].pipeline # Drawn[i - 1].pipeline)

\* C25: currentPipeline is "none" when the recording of a frame starts, equals
\* the pipeline of the entity just drawn after each draw, and the first
\* drawn entity of every frame binds its pipeline.
C25_BoundPipelineTracked ==
    LET \* Entities drawn so far in this frame, in draw order.
        Drawn == SelectSeq(drawLog, LAMBDA d : d.drawn)
    IN
    /\ (cmdBuf = "recording" /\ Drawn = << >>) => currentPipeline = "none"
    /\ Drawn # << >> =>
          /\ currentPipeline = Drawn[Len(Drawn)].pipeline
          /\ Drawn[1].bound

\* The entity has no vertex data, a null pipeline or a null pipeline layout.
NotDrawable(e) ==
    \/ scene.ents[e].empty
    \/ scene.ents[e].material.pipeline = "none"
    \/ scene.ents[e].material.layout = "none"

\* C26: the mesh system passes over an entity that is not drawable without
\* an upload, a push to the deletion queue, a change of the bound-pipeline
\* state or a recorded command, and goes on with the next entity; the
\* entities it has processed are exactly the drawable ones it has reached.
C26_SkipsNotDrawable ==
    /\ [][(/\ pc = "draw_loop"
            /\ scene.camera # "none"
            /\ drawIdx <= NumEntities
            /\ NotDrawable(drawIdx)) =>
               /\ UNCHANGED << meshInit, uploadVars, mainDeletionQueue, pushCount,
                               currentPipeline, recorded, cmdExtents, drawLog >>
               /\ drawIdx' = drawIdx + 1
               /\ pc' = "draw_loop"]_vars
    /\ [](pc = "draw_loop" =>
            \A e \in 1..(drawIdx - 1) :
                (\E i \in 1..Len(drawLog) : drawLog[i].e = e) <=> ~NotDrawable(e))

\* C26 witness: the first entity was skipped and every other entity of the
\* frame was then uploaded, bound and drawn.
C26_Witness ==
    /\ pc = "draw_loop"
    /\ drawIdx > NumEntities
    /\ NotDrawable(1)
    /\ ~meshInit[1]
    /\ Len(drawLog) = NumEntities - 1
    /\ \A i \in 1..Len(drawLog) : drawLog[i].drawn /\ meshInit[drawLog[i].e]

FirstSignalIs(kind) ==
    \E i \in 1..Len(events) :
        /\ events[i] = kind
        /\ \A j \in 1..(i - 1) : events[j] \notin {"quit", "restored"}

\* C28: the poll loop of OnWindowMinimize ends only by returning on a restored
\* event or by a quit event ending the process; the zero-extent loop of
\* OnWindowResize ends only by reading a positive extent or by a quit event
\* ending the process; the process ended by quit takes no further step (no
\* teardown). Once a restored or quit event is queued, or once the extent
\* stays positive, the loop ends.
C28_BlockLoopEnds ==
    /\ [][(pc = "min_loop" /\ pc' # "min_loop") =>
             \/ pc' = "exited" /\ FirstSignalIs("quit")
             \/ pc' = "input_poll" /\ FirstSignalIs("restored")]_vars
    /\ [][(pc = "resize_loop" /\ pc' # "resize_loop") =>
             \/ pc' = "exited" /\ (\E i \in 1..Len(events) : events[i] = "quit")
             \/ /\ pc' = "resize_idle"
                /\ ~(\E i \in 1..Len(events) : events[i] = "quit")
                /\ width' > 0 /\ height' > 0
                /\ << width', height' >> = windowSize]_vars
    /\ [][pc = "exited" => (pc' = "exited" /\ flushCount' = 0 /\ UNCHANGED swapVars)]_vars
    /\ (pc = "min_loop" /\ (FirstSignalIs("quit") \/ FirstSignalIs("restored")))
          ~> (pc # "min_loop")
    /\ (pc = "resize_loop" /\ (\E i \in 1..Len(events) : events[i] = "quit"))
          ~> (pc = "exited")
    /\ (pc = "resize_loop" /\ [](windowSize[1] > 0 /\ windowSize[2] > 0))
          ~> (pc # "resize_loop")

\* C28 witness: a quit event ended the process inside the poll loop of
\* OnWindowMinimize after frames had been drawn; nothing was torn down.
C28_Witness ==
    /\ pc = "exited"
    /\ frameNumber >= 1
    /\ windowSize = << 0, 0 >>
    /\ swapchain = "valid"
    /\ flushCount = 0

\* C29: a failure to create the window, the instance, the surface, the
\* physical-device selection or the logical device is reported and ends the
\* process at once: the failed step is not retried, and no later
\* initialization step has run or runs afterwards.
C29_InitFailureIsFatal ==
    /\ [](initFailure # "none" =>
             /\ pc = "exited"
             \* no initialization step after InitVulkan has had an effect
             /\ initIdx <= Len(InitOrder)
             /\ InitOrder[initIdx] \in {"InitWindow", "InitVulkan"}
             /\ swapchain = "null" /\ swapchainImages = 0 /\ swapchainImageViews = 0
             /\ ~depth
             /\ framebuffers = 0
             /\ mainDeletionQueue = << >> /\ pushCount = 0
             /\ ~syncLive
             /\ ~pipelinesLive)
    /\ [][initFailure = "none"]_vars

\* C29 witness: the logical device, the last creation InitVulkan checks,
\* could not be created.
C29_Witness ==
    /\ initFailure = "device"
    /\ pc = "exited"
    /\ InitOrder[initIdx] = "InitVulkan"

\* C30: the frame counter changes only at the end of PostDrawStep and then by
\* exactly one, every PostDrawStep that reaches its end increments it, also
\* after a present that reported an out-of-date or suboptimal surface, and it
\* never decreases.
C30_FrameCounterMonotonic ==
    /\ [][frameNumber' # frameNumber =>
             (pc = "post_end" /\ frameNumber' = frameNumber + 1)]_vars
    /\ [][(pc = "post_end" /\ pc' # "post_end") => frameNumber' = frameNumber + 1]_vars
    /\ [][frameNumber' >= frameNumber]_vars

\* C30 witness: two frames were counted, the second after a present that
\* reported a stale surface.
C30_Witness ==
    /\ frameNumber >= 2
    /\ needsRebuild
    /\ pc = "sched"

\* The state the table of the four flag combinations gives a key; a key is
\* down in a map when the map holds it with a true flag.
Classified(k) ==
    LET DownIn(flags, key) == key \in DOMAIN flags /\ flags[key] IN
    CASE ~DownIn(prevKeyFlags, k) /\ DownIn(currKeyFlags, k) -> "Pressed"
      [] DownIn(prevKeyFlags, k) /\ DownIn(currKeyFlags, k) -> "Held"
      [] DownIn(prevKeyFlags, k) /\ ~DownIn(currKeyFlags, k) -> "Released"
      [] ~DownIn(prevKeyFlags, k) /\ ~DownIn(currKeyFlags, k) -> "Idle"

\* C31: GetState gives every key the state of the table over its previous
\* and current down flags, a key absent from a map counting as up; IsHeld is
\* true exactly when the key is down now, IsPressed implies IsHeld, and
\* IsIdle and IsHeld are never both true. Every query made returned the
\* value the table gives.
C31_KeyClassification ==
    /\ \A k \in Keycodes :
          /\ GetState(k) = Classified(k)
          /\ IsHeld(k) <=> (k \in DOMAIN currKeyFlags /\ currKeyFlags[k])
          /\ IsPressed(k) => IsHeld(k)
          /\ ~(IsIdle(k) /\ IsHeld(k))
    /\ keyQuery.op = "GetState" => keyQuery.state = Classified(keyQuery.keycode)
    /\ keyQuery.op = "IsPressed" =>
          (keyQuery.value <=> Classified(keyQuery.keycode) = "Pressed")
    /\ keyQuery.op = "IsHeld" =>
          (keyQuery.value <=> (/\ keyQuery.keycode \in DOMAIN currKeyFlags
                               /\ currKeyFlags[keyQuery.keycode]))
    /\ keyQuery.op = "IsIdle" =>
          (keyQuery.value <=> Classified(keyQuery.keycode) = "Idle")

\* IsHeld has answered true for a key that has just gone down and that the
\* previous-tick map does not hold.
C31_Witness ==
    /\ keyQuery.op = "IsHeld"
    /\ keyQuery.value
    /\ keyQuery.keycode \notin DOMAIN prevKeyFlags
    /\ Classified(keyQuery.keycode) = "Pressed"

\* C38: GetAbsPosition ends on every store without a parent cycle; the walk
\* visits each ancestor at most once and never the entity itself, follows the
\* chain of parents that carry a Transform and stops at its end with the
\* pointer set to null and without an exception leaving the call; the value
\* returned is the position of the entity combined (by subtraction) with the
\* positions of exactly the Transforms visited.
C38_AbsPositionWalk ==
    /\ [](LET \* The ancestors whose Transform the walk from the Transform of
              \* entity t has to visit, nearest first: the chain ends at a
              \* Transform whose handle was never set, at an entity without a
              \* parent and at a parent without a Transform.
              RECURSIVE Ancestors(_)
              Ancestors(t) ==
                  LET h == transforms[t].transform.entity
                      p == IF h = NullEntity THEN NullEntity
                                             ELSE transforms[h].parent
                  IN  IF p = NullEntity \/ ~transforms[p].transform.present
                         THEN << >>
                         ELSE << p >> \o Ancestors(p)
              \* Sum of the positions of the Transforms of a sequence of
              \* entities.
              RECURSIVE SumPositions(_)
              SumPositions(es) ==
                  IF es = << >> THEN 0
                  ELSE transforms[Head(es)].transform.position
                          + SumPositions(Tail(es))
              \* es is an initial part of fs.
              IsPrefix(es, fs) ==
                  Len(es) <= Len(fs) /\ \A i \in 1..Len(es) : es[i] = fs[i]
          IN
          walk.pc # "idle" =>
            /\ pc = "transform"
            /\ \A i, j \in 1..Len(walk.visited) :
                  walk.visited[i] = walk.visited[j] => i = j
            /\ \A i \in 1..Len(walk.visited) : walk.visited[i] # walk.self
            /\ IsPrefix(walk.visited, Ancestors(walk.self))
            /\ walk.absPosition =
                  transforms[walk.self].transform.position
                     - SumPositions(walk.visited)
            /\ walk.pc = "returned" =>
                  /\ walk.visited = Ancestors(walk.self)
                  /\ walk.currentTransform = NullEntity)
    /\ (walk.pc = "loop" ~> walk.pc = "returned")

\* A call has returned after visiting the Transforms of the parent and of
\* the grandparent.
C38_Witness ==
    /\ walk.pc = "returned"
    /\ Len(walk.visited) = 2

\* C32: while UploadMesh runs from the Draw stage, the frame stays in
\* recording: no step of UploadMesh, of ImmediateSubmit or of the upload
\* queue changes the state of the per-frame command buffer, the render
\* fence, either semaphore, the acquired image index or currentPipeline.
C32_UploadLeavesFrameAlone ==
    [][(pc \in {"up_start", "up_memcpy", "up_create_device", "up_submit_v",
                "up_wait_v", "up_submit_i", "up_wait_i", "up_finish", "up_done"}) =>
          (/\ cmdBuf = "recording"
           /\ frameState = "Recording"
           /\ UNCHANGED << cmdBuf, renderFence, presentSem, renderSem,
                           swapchainImageIndex, currentPipeline >>)]_vars

\* UploadMesh has returned from both ImmediateSubmit calls and registered
\* the mesh while the frame is being recorded.
C32_Witness ==
    /\ pc = "up_done"
    /\ meshInit[drawIdx]
    /\ cmdBuf = "recording"
    /\ renderFence = "unsignaled"
    /\ presentSem = 1

\* C33: whenever ImmediateSubmit is entered and whenever it returns, the
\* upload fence is unsignaled with no submission pending and the upload
\* command buffer is in the initial state, across both calls of one
\* UploadMesh and across every upload.
C33_UploadContextClean ==
    \* at the entry of an ImmediateSubmit call, or just returned from one
    pc \in {"up_submit_v", "up_submit_i", "up_finish"} =>
        /\ uploadFence = "unsignaled"
        /\ uploadPending = {}
        /\ uploadCmd = "initial"

\* C34: the render fence is created signaled, so the wait of the first
\* PreDrawStep passes although nothing was submitted; once PreDrawStep has
\* reset the fence it stays unsignaled through the frame and is signaled only
\* by the GPU completing the submission of that frame, so the wait of each
\* PreDrawStep finds the fence signaled exactly when the previous
\* submission has completed.
C34_FenceTracksSubmission ==
    /\ []((pc = "pre_wait" /\ frameNumber = 0) =>
             (renderFence = "signaled" /\ inFlight = {} /\ cmdBuf = "initial"))
    /\ []((pc = "pre_wait") => (renderFence = "signaled" <=> inFlight = {}))
    /\ []((pc \in {"pre_acquire", "pre_record", "draw_loop", "post_submit"}
             \/ frameState \in {"Acquired", "Recording"})
            => renderFence = "unsignaled")
    /\ [][(syncLive /\ renderFence = "unsignaled" /\ renderFence' = "signaled") =>
             (/\ frameState \in {"Submitted", "Presenting", "Idle"}
              /\ cmdBuf = "pending"
              /\ inFlight # {}
              /\ inFlight' = {})]_vars
    /\ [][(pc = "pre_wait" /\ pc' = "pre_reset") =>
             (renderFence = "signaled" /\ inFlight = {})]_vars

\* The wait of the second frame has passed on the fence the first frame's
\* submission signaled, and the fence was reset again.
C34_Witness ==
    /\ pc = "pre_acquire"
    /\ frameNumber = 1
    /\ renderFence = "unsignaled"
    /\ inFlight = {}

\* C35: whenever PreDrawStep runs, every framebuffer references a live
\* swapchain image view and the live depth view, and the image index the
\* render pass is begun with is an index into the framebuffer list; after
\* initialization and after every rebuild, whatever the swapchain build did.
C35_FramebuffersLive ==
    pc \in {"pre_wait", "pre_reset", "pre_acquire", "pre_record"} =>
        /\ fbValid
        /\ framebuffers <= swapchainImageViews
        /\ framebuffers > 0 => depth
        /\ pc = "pre_record" => swapchainImageIndex < framebuffers

\* C36: the FinalCleanup system destroys the material pipelines only when
\* the render fence of the last submitted frame has signaled, and after
\* the cleanup no run of the mesh system binds a pipeline or records a draw.
C36_PipelinesOutliveFrames ==
    /\ [][(pc = "material_cleanup" /\ pipelinesLive /\ ~pipelinesLive') =>
             (renderFence = "signaled" /\ inFlight = {})]_vars
    /\ [][(finalCleanupAdded /\ ~pipelinesLive) =>
             ~(pc = "draw_loop" /\ (recorded' # recorded \/ drawLog' # drawLog))]_vars

\* Positions of an operation in a history.
PositionsOf(log, op) == {i \in 1..Len(log) : log[i] = op}

\* C37: the destructor destroys every resource before the object it was
\* created from and each resource once: what the flush releases (mesh
\* buffers, fences, semaphores, upload command pool), the framebuffers, the
\* swapchain resources, the render pass and the main command pool go before
\* the allocator and the device, these before the surface and the instance,
\* and the window last; no later step repeats a destruction of the flush or
\* of CleanupSwapchain.
C37_ShutdownOrder ==
    LET \* The destructions of the objects the destroyed object was created
        \* from.
        CreatedFrom(op) ==
            CASE op \in {"destroy framebuffers", "destroy depthImageView",
                         "destroy imageViews", "destroy renderPass",
                         "destroy commandPool", "destroy uploadCommandPool",
                         "destroy uploadFence", "destroy renderFence",
                         "destroy presentSemaphore", "destroy renderSemaphore",
                         "destroy imguiPool"} ->
                    {"destroy device"}
              [] op = "destroy swapchain" -> {"destroy device", "destroy surface"}
              [] op \in {"destroy depthImage", "destroy meshBuffers"} ->
                    {"destroy allocator"}
              [] op = "destroy allocator" -> {"destroy device", "destroy instance"}
              [] op \in {"destroy device", "destroy surface",
                         "destroy debugMessenger"} ->
                    {"destroy instance"}
              [] OTHER -> {}
    IN
    LogOf("~RenderingECSModule") =>
        /\ \A i \in 1..Len(lifecycleLog) : \A j \in 1..Len(lifecycleLog) :
              lifecycleLog[i] \in CreatedFrom(lifecycleLog[j]) => j < i
        /\ \A i \in 1..Len(lifecycleLog) : \A j \in 1..Len(lifecycleLog) :
              (lifecycleLog[i] = lifecycleLog[j] /\ i # j)
                  => lifecycleLog[i] = "destroy meshBuffers"
        /\ Cardinality(PositionsOf(lifecycleLog, "destroy meshBuffers"))
              <= Cardinality({e \in Entities : meshInit[e]})
        /\ \A i \in 1..Len(flushLog) : \A j \in 1..Len(flushLog) :
              flushLog[i].id = flushLog[j].id => i = j
        /\ pc = "done" =>
              /\ \A k \in 1..Len(DestroyOpsRest) :
                    PositionsOf(lifecycleLog, DestroyOpsRest[k]) # {}
              /\ lifecycleLog[Len(lifecycleLog)] = "destroy window"
              /\ Len(flushLog) = pushCount
              /\ Cardinality(PositionsOf(lifecycleLog, "destroy meshBuffers"))
                    = Cardinality({e \in Entities : meshInit[e]})
              /\ mainDeletionQueue = << >>
              /\ framebuffers = 0
              /\ swapchainImageViews = 0
              /\ swapchain = "null"
              /\ ~depth
              /\ ~syncLive

\* The module was torn down after every mesh was uploaded and with a live
\* swapchain.
C37_Witness ==
    /\ pc = "done"
    /\ Cardinality(PositionsOf(lifecycleLog, "destroy meshBuffers")) = NumEntities
    /\ PositionsOf(lifecycleLog, "destroy swapchain") # {}
    /\ PositionsOf(lifecycleLog, "destroy renderFence") # {}

====
